---- MODULE Spec2Model ----
(***************************************************************************)
(* Tiered backup retention of relic (backend/backup.py): the timestamp     *)
(* codec, the retention classifier classify_backups and the cleanup pass   *)
(* cleanup_old_backups that applies it to the object store.                *)
(***************************************************************************)
EXTENDS Integers, Sequences, FiniteSets, TLC

(***************************************************************************)
(* Bounds of the model.                                                    *)
(***************************************************************************)
\* largest number of snapshots in an input list of the classifier
MaxLen == 4
\* largest number of objects the store holds
MaxStore == 3

(***************************************************************************)
(* Configuration (backend/config.py).                                      *)
(***************************************************************************)
BACKUP_RETENTION_DAYS == 7
BACKUP_RETENTION_WEEKS == 30

(***************************************************************************)
(* datetime: a record of the six calendar fields, second precision.        *)
(***************************************************************************)
DT(y, mo, d, h, mi, s) ==
    [year |-> y, month |-> mo, day |-> d, hour |-> h, minute |-> mi, second |-> s]

\* proleptic Gregorian day number of a date (days since 1970-01-01)
DaysFromCivil(y, mo, d) ==
    LET yy  == IF mo <= 2 THEN y - 1 ELSE y
        era == yy \div 400
        yoe == yy - era * 400
        mp  == IF mo > 2 THEN mo - 3 ELSE mo + 9
        doy == (153 * mp + 2) \div 5 + d - 1
        doe == yoe * 365 + yoe \div 4 - yoe \div 100 + doy
    IN  era * 146097 + doe - 719468

\* date.toordinal() up to a constant
Ordinal(dt) == DaysFromCivil(dt.year, dt.month, dt.day)

SecondOfDay(dt) == dt.hour * 3600 + dt.minute * 60 + dt.second

\* total order of datetimes: d1 < d2
Before(d1, d2) ==
    \/ Ordinal(d1) < Ordinal(d2)
    \/ Ordinal(d1) = Ordinal(d2) /\ SecondOfDay(d1) < SecondOfDay(d2)

\* (d1 - d2).days of the timedelta d1 - d2: the floor of the difference in days
TimedeltaDays(d1, d2) ==
    ((Ordinal(d1) - Ordinal(d2)) * 86400 + SecondOfDay(d1) - SecondOfDay(d2)) \div 86400

\* the ordinal of the Monday that starts ISO week 1 of ISO year y
\* (the week of January 4th; 1970-01-01 was a Thursday)
IsoWeek1Monday(y) ==
    LET jan4 == DaysFromCivil(y, 1, 4)
    IN  jan4 - ((jan4 + 3) % 7)

\* date.isocalendar()[0]
IsoYear(dt) ==
    IF Ordinal(dt) >= IsoWeek1Monday(dt.year + 1) THEN dt.year + 1
    ELSE IF Ordinal(dt) < IsoWeek1Monday(dt.year) THEN dt.year - 1
    ELSE dt.year

\* date.isocalendar()[1]
IsoWeek(dt) == (Ordinal(dt) - IsoWeek1Monday(IsoYear(dt))) \div 7 + 1

(***************************************************************************)
(* Timestamp codec.  An object key is the record of what its name carries  *)
(* around and inside the segment the two patterns look for:                *)
(*   db/<lead>backup-YYYY-MM-DD-HH-MM-SS.sql.gz<trail>      kind "full"    *)
(*   db/<lead>backup-YYYY-MM-DD-<word>.sql.gz<trail>        kind <word>    *)
(* with the digit groups as the sequences of their decimal digits; a       *)
(* marker key has no time groups.  A name with no such segment at all      *)
(* (db/notabackup.txt) has kind "other" and no groups.                     *)
(***************************************************************************)
MarkerKinds == {"startup", "shutdown"}
BackupTypes == {"scheduled", "manual", "startup", "shutdown"}

\* the result of a call that raised ValueError
ValueError == [error |-> "ValueError"]

\* '%0<width>d' of strftime: the decimal digits of n, zero padded
strftime_field(n, width) ==
    [i \in 1..width |-> (n \div (10 ^ (width - i))) % 10]

\* int(group) of a group of decimal digits
RECURSIVE int(_)
int(digits) ==
    IF digits = <<>> THEN 0
    ELSE 10 * int(SubSeq(digits, 1, Len(digits) - 1)) + digits[Len(digits)]

DaysInMonth(y, mo) ==
    IF mo = 2
    THEN (IF (y % 4 = 0 /\ y % 100 # 0) \/ y % 400 = 0 THEN 29 ELSE 28)
    ELSE IF mo \in {4, 6, 9, 11} THEN 30 ELSE 31

\* the constructor datetime(y, mo, d, h, mi, s): raises ValueError when a
\* field is out of range
datetime(y, mo, d, h, mi, s) ==
    IF /\ y \in 1..9999
       /\ mo \in 1..12
       /\ d \in 1..DaysInMonth(y, mo)
       /\ h \in 0..23
       /\ mi \in 0..59
       /\ s \in 0..59
    THEN DT(y, mo, d, h, mi, s)
    ELSE ValueError

\* a marker key that spells the hour too
generate_backup_filename_hourly(backup_type, t) ==
    [lead |-> "", kind |-> IF backup_type \in MarkerKinds THEN backup_type ELSE "full",
     year |-> strftime_field(t.year, 4), month |-> strftime_field(t.month, 2),
     day |-> strftime_field(t.day, 2), hour |-> strftime_field(t.hour, 2),
     minute |-> IF backup_type \in MarkerKinds THEN <<>> ELSE strftime_field(t.minute, 2),
     second |-> IF backup_type \in MarkerKinds THEN <<>> ELSE strftime_field(t.second, 2),
     trail |-> ""]

\* generate_backup_filename(backup_type) called when utcnow() is t
generate_backup_filename(backup_type, t) ==
    IF backup_type \in MarkerKinds
    THEN [lead |-> "", kind |-> backup_type,
          year |-> strftime_field(t.year, 4), month |-> strftime_field(t.month, 2),
          day |-> strftime_field(t.day, 2),
          hour |-> <<>>, minute |-> <<>>, second |-> <<>>, trail |-> ""]
    ELSE [lead |-> "", kind |-> "full",
          year |-> strftime_field(t.year, 4), month |-> strftime_field(t.month, 2),
          day |-> strftime_field(t.day, 2), hour |-> strftime_field(t.hour, 2),
          minute |-> strftime_field(t.minute, 2),
          second |-> strftime_field(t.second, 2), trail |-> ""]

\* re.search(pattern_full, s3_key): six groups of 4, 2, 2, 2, 2 and 2
\* digits; the segment may stand anywhere in the key
pattern_full(s3_key) ==
    /\ s3_key.kind = "full"
    /\ Len(s3_key.year) = 4 /\ Len(s3_key.month) = 2 /\ Len(s3_key.day) = 2
    /\ Len(s3_key.hour) = 2 /\ Len(s3_key.minute) = 2 /\ Len(s3_key.second) = 2

\* re.search(pattern_date, s3_key): three groups of digits and one of the
\* two marker words
pattern_date(s3_key) ==
    /\ s3_key.kind \in MarkerKinds
    /\ Len(s3_key.year) = 4 /\ Len(s3_key.month) = 2 /\ Len(s3_key.day) = 2

\* a decoder that reads a marker key as midnight
parse_backup_timestamp_midnight(s3_key) ==
    IF pattern_full(s3_key)
    THEN datetime(int(s3_key.year), int(s3_key.month), int(s3_key.day),
                  int(s3_key.hour), int(s3_key.minute), int(s3_key.second))
    ELSE IF pattern_date(s3_key)
    THEN datetime(int(s3_key.year), int(s3_key.month), int(s3_key.day), 0, 0, 0)
    ELSE ValueError

\* a decoder that matches the whole file name (re.fullmatch after the prefix)
parse_backup_timestamp_fullmatch(s3_key) ==
    IF s3_key.lead # "" \/ s3_key.trail # "" THEN ValueError
    ELSE IF pattern_full(s3_key)
    THEN datetime(int(s3_key.year), int(s3_key.month), int(s3_key.day),
                  int(s3_key.hour), int(s3_key.minute), int(s3_key.second))
    ELSE IF pattern_date(s3_key)
    THEN datetime(int(s3_key.year), int(s3_key.month), int(s3_key.day), 12, 0, 0)
    ELSE ValueError

\* parse_backup_timestamp(s3_key): the datetime, or ValueError
parse_backup_timestamp(s3_key) ==
    IF pattern_full(s3_key)
    THEN datetime(int(s3_key.year), int(s3_key.month), int(s3_key.day),
                  int(s3_key.hour), int(s3_key.minute), int(s3_key.second))
    ELSE IF pattern_date(s3_key)
    THEN datetime(int(s3_key.year), int(s3_key.month), int(s3_key.day), 12, 0, 0)
    ELSE ValueError

(***************************************************************************)
(* Retention classifier.  A backup is the dict list_all_backups builds:    *)
(* key, timestamp, size (last_modified is never read), and retention_type, *)
(* "none" while the dict has no such entry.                                *)
(***************************************************************************)
Backup(k, sz) ==
    [key |-> k, timestamp |-> parse_backup_timestamp(k), size |-> sz,
     retention_type |-> "none"]

\* the stable insertion of b into a list sorted newest first: after the
\* elements that are not older than it
RECURSIVE InsertDescending(_, _)
InsertDescending(sorted, b) ==
    IF sorted = <<>> THEN <<b>>
    ELSE IF Before(Head(sorted).timestamp, b.timestamp)
         THEN <<b>> \o sorted
         ELSE <<Head(sorted)>> \o InsertDescending(Tail(sorted), b)

RECURSIVE InsertAscending(_, _)
InsertAscending(sorted, b) ==
    IF sorted = <<>> THEN <<b>>
    ELSE IF Before(b.timestamp, Head(sorted).timestamp)
         THEN <<b>> \o sorted
         ELSE <<Head(sorted)>> \o InsertAscending(Tail(sorted), b)

\* sorted(backups, key=timestamp) without reverse=True: oldest first
RECURSIVE sort_ascending(_, _)
sort_ascending(backups, n) ==
    IF n = 0 THEN <<>>
    ELSE InsertAscending(sort_ascending(backups, n - 1), backups[n])

sorted_backups_ascending(backups) == sort_ascending(backups, Len(backups))

\* the first n elements of the list, sorted newest first
RECURSIVE sort_descending(_, _)
sort_descending(backups, n) ==
    IF n = 0 THEN <<>>
    ELSE InsertDescending(sort_descending(backups, n - 1), backups[n])

\* sorted(backups, key=lambda x: x['timestamp'], reverse=True): newest first,
\* snapshots of equal timestamp in their input order
sorted_backups(backups) == sort_descending(backups, Len(backups))

\* the age as a difference of dates: now.date() - timestamp.date()
age_days_of_dates(nowv, backup) == Ordinal(nowv) - Ordinal(backup.timestamp)

\* age_days = (now - backup['timestamp']).days
age_days(nowv, backup) == TimedeltaDays(nowv, backup.timestamp)

MonthOf(backup) == <<backup.timestamp.year, backup.timestamp.month>>
WeekOf(backup)  == <<backup.timestamp.year, IsoWeek(backup.timestamp)>>

\* the if/elif chain with < for <= in the daily branch
retention_type_strict_daily(backup, nowv, kept_months, kept_weeks) ==
    IF MonthOf(backup) \notin kept_months THEN "monthly"
    ELSE IF age_days(nowv, backup) <= BACKUP_RETENTION_WEEKS
            /\ WeekOf(backup) \notin kept_weeks THEN "weekly"
    ELSE IF age_days(nowv, backup) < BACKUP_RETENTION_DAYS THEN "daily"
    ELSE "expired"

\* the if/elif chain with the weekly age limit on the monthly branch too
retention_type_monthly_window(backup, nowv, kept_months, kept_weeks) ==
    IF MonthOf(backup) \notin kept_months
       /\ age_days(nowv, backup) <= BACKUP_RETENTION_WEEKS THEN "monthly"
    ELSE IF age_days(nowv, backup) <= BACKUP_RETENTION_WEEKS
            /\ WeekOf(backup) \notin kept_weeks THEN "weekly"
    ELSE IF age_days(nowv, backup) <= BACKUP_RETENTION_DAYS THEN "daily"
    ELSE "expired"

\* the weekly tier ends with the daily window
retention_type_weekly_short(backup, nowv, kept_months, kept_weeks) ==
    IF MonthOf(backup) \notin kept_months THEN "monthly"
    ELSE IF age_days(nowv, backup) <= BACKUP_RETENTION_DAYS
            /\ WeekOf(backup) \notin kept_weeks THEN "weekly"
    ELSE IF age_days(nowv, backup) <= BACKUP_RETENTION_DAYS THEN "daily"
    ELSE "expired"

\* the daily tier lasts as long as the weekly one
retention_type_daily_long(backup, nowv, kept_months, kept_weeks) ==
    IF MonthOf(backup) \notin kept_months THEN "monthly"
    ELSE IF age_days(nowv, backup) <= BACKUP_RETENTION_WEEKS
            /\ WeekOf(backup) \notin kept_weeks THEN "weekly"
    ELSE IF age_days(nowv, backup) <= BACKUP_RETENTION_WEEKS THEN "daily"
    ELSE "expired"

\* the if/elif chain of the loop: the tier a backup is given
retention_type(backup, nowv, kept_months, kept_weeks) ==
    IF MonthOf(backup) \notin kept_months THEN "monthly"
    ELSE IF age_days(nowv, backup) <= BACKUP_RETENTION_WEEKS
            /\ WeekOf(backup) \notin kept_weeks THEN "weekly"
    ELSE IF age_days(nowv, backup) <= BACKUP_RETENTION_DAYS THEN "daily"
    ELSE "expired"

\* the body of the branch: tag the dict, append it to its list, fill its bucket
place_drop_daily(acc, backup, tier) ==
    LET tagged == [backup EXCEPT !.retention_type = tier]
    IN  [to_keep     |-> IF tier \in {"monthly", "weekly"}
                         THEN Append(acc.to_keep, tagged) ELSE acc.to_keep,
         to_delete   |-> IF tier = "expired"
                         THEN Append(acc.to_delete, tagged) ELSE acc.to_delete,
         kept_months |-> IF tier = "monthly"
                         THEN acc.kept_months \cup {MonthOf(backup)} ELSE acc.kept_months,
         kept_weeks  |-> IF tier = "weekly"
                         THEN acc.kept_weeks \cup {WeekOf(backup)} ELSE acc.kept_weeks]

place_forget_week(acc, backup, tier) ==
    LET tagged == [backup EXCEPT !.retention_type = tier]
    IN  [to_keep     |-> IF tier # "expired"
                         THEN Append(acc.to_keep, tagged) ELSE acc.to_keep,
         to_delete   |-> IF tier = "expired"
                         THEN Append(acc.to_delete, tagged) ELSE acc.to_delete,
         kept_months |-> IF tier = "monthly"
                         THEN acc.kept_months \cup {MonthOf(backup)} ELSE acc.kept_months,
         kept_weeks  |-> acc.kept_weeks]

\* a monthly snapshot fills the bucket of its week too
place_month_fills_week(acc, backup, tier) ==
    LET tagged == [backup EXCEPT !.retention_type = tier]
    IN  [to_keep     |-> IF tier # "expired"
                         THEN Append(acc.to_keep, tagged) ELSE acc.to_keep,
         to_delete   |-> IF tier = "expired"
                         THEN Append(acc.to_delete, tagged) ELSE acc.to_delete,
         kept_months |-> IF tier = "monthly"
                         THEN acc.kept_months \cup {MonthOf(backup)} ELSE acc.kept_months,
         kept_weeks  |-> IF tier \in {"weekly", "monthly"}
                         THEN acc.kept_weeks \cup {WeekOf(backup)} ELSE acc.kept_weeks]

place(acc, backup, tier) ==
    LET tagged == [backup EXCEPT !.retention_type = tier]
    IN  [to_keep     |-> IF tier # "expired"
                         THEN Append(acc.to_keep, tagged) ELSE acc.to_keep,
         to_delete   |-> IF tier = "expired"
                         THEN Append(acc.to_delete, tagged) ELSE acc.to_delete,
         kept_months |-> IF tier = "monthly"
                         THEN acc.kept_months \cup {MonthOf(backup)} ELSE acc.kept_months,
         kept_weeks  |-> IF tier = "weekly"
                         THEN acc.kept_weeks \cup {WeekOf(backup)} ELSE acc.kept_weeks]

\* kept_months seeded from the tags an earlier run left on the dicts
initial_kept_months_memo(backups) ==
    {MonthOf(backups[j]) : j \in {n \in 1..Len(backups) :
                                     backups[n].retention_type = "monthly"}}

\* kept_months = set()
initial_kept_months(backups) == {}

\* the for loop over sorted_backups, from position j on
RECURSIVE classify_loop(_, _, _, _)
classify_loop(sorted, nowv, j, acc) ==
    IF j > Len(sorted) THEN acc
    ELSE classify_loop(sorted, nowv, j + 1,
            place(acc, sorted[j],
                  retention_type(sorted[j], nowv, acc.kept_months, acc.kept_weeks)))

\* the returned dict {'to_keep': ..., 'to_delete': ...}; nowv is datetime.utcnow()
classify_backups(backups, nowv) ==
    LET r == classify_loop(sorted_backups(backups), nowv, 1,
                [to_keep |-> <<>>, to_delete |-> <<>>,
                 kept_weeks |-> {}, kept_months |-> initial_kept_months(backups)])
    IN  [to_keep |-> r.to_keep, to_delete |-> r.to_delete]

SeqToSet(s) == {s[j] : j \in 1..Len(s)}

\* the input list after the call: the same dicts, each now carrying the tag
\* the loop wrote into it
tagged_input(backups, result) ==
    LET out == SeqToSet(result.to_keep) \cup SeqToSet(result.to_delete)
    IN  [j \in 1..Len(backups) |->
            IF \E b \in out : b.key = backups[j].key
            THEN CHOOSE b \in out : b.key = backups[j].key
            ELSE backups[j]]

(***************************************************************************)
(* Inputs of the model: keys already in the store and instants of now.     *)
(***************************************************************************)
FullKey(y, mo, d, h, mi, s) == generate_backup_filename("scheduled", DT(y, mo, d, h, mi, s))
MarkerKey(y, mo, d, marker) == generate_backup_filename(marker, DT(y, mo, d, 0, 0, 0))

\* db/notabackup.txt: an object under the prefix that is no backup
OtherKey ==
    [lead |-> "", kind |-> "other", year |-> <<>>, month |-> <<>>, day |-> <<>>,
     hour |-> <<>>, minute |-> <<>>, second |-> <<>>, trail |-> ""]

CandidateKeys ==
    { FullKey(2024, 11, 29, 14, 0, 0),
      FullKey(2024, 12, 23, 2, 0, 0),
      FullKey(2024, 12, 30, 2, 0, 0),
      MarkerKey(2024, 12, 31, "startup"),
      MarkerKey(2024, 12, 31, "shutdown"),
      FullKey(2025, 1, 1, 2, 0, 0),
      FullKey(2025, 1, 1, 14, 0, 0),
      FullKey(2025, 1, 2, 2, 0, 0),
      FullKey(2025, 1, 3, 12, 0, 0) }

Nows ==
    { DT(2025, 1, 3, 8, 0, 0),
      DT(2025, 1, 9, 13, 0, 0),
      DT(2025, 2, 5, 3, 0, 0) }

\* the lists of at most n snapshots with pairwise different keys, in any order
InputLists(n) ==
    { l \in UNION { [1..m -> {Backup(k, 1) : k \in CandidateKeys}] : m \in 0..n } :
        \A a, b \in 1..Len(l) : a # b => l[a].key # l[b].key }

(***************************************************************************)
(* State.                                                                  *)
(***************************************************************************)
VARIABLES
    now,            \* datetime.utcnow()
    store,          \* the objects under db/ in the bucket: records [key, size]
    pc,             \* where the running task stands
    backups,        \* the list classify_backups is called with
    to_keep,        \* result['to_keep']
    to_delete,      \* result['to_delete']
    rerun,          \* the result of a second call on the same list
    idx,            \* position of the deletion loop in to_delete
    deleted_count,
    deleted_bytes,
    attempted,      \* the calls of storage_service.delete: [key, outcome], in order
    list_failed,    \* the listing of the running pass raised
    summary,        \* the counts of the "Cleanup completed" log line
    classify_failed, \* classify_backups raised in the running pass
    bpc,            \* where the running perform_backup stands
    btype,          \* its backup_type
    attempt,        \* its loop variable
    waits,          \* the durations of its asyncio.sleep calls, in order
    returned,       \* what it returned: "True", "False", or "none" so far
    uploaded,       \* the startup and shutdown backups that succeeded so far:
                    \* the set of their [backup_type, at]
    s3_key,         \* the key the codec is applied to
    decoded,        \* what parse_backup_timestamp returned for it
    clients,        \* the rows of table client_key: [id, name]
    relics,         \* the rows of table relic: [id, client_id, name, access_level]
    comments,       \* the rows of table comment
    blobs,          \* the objects under relics/ in the bucket: [key, content]
    response,       \* the last HTTP response, with the request it answers
    peer            \* a cleanup pass of another process: [pc, to_delete, idx]

\* the state of the codec runs and of the HTTP handlers
codecVars == <<s3_key, decoded>>
webVars == <<clients, relics, comments, blobs, response>>
peerVars == <<peer>>
otherVars == <<codecVars, webVars, peerVars>>

\* the state of perform_backup
backupVars == <<bpc, btype, attempt, waits, returned, uploaded>>

vars == <<now, store, pc, backups, to_keep, to_delete, rerun, idx,
          deleted_count, deleted_bytes, attempted, list_failed, summary,
          classify_failed, backupVars, otherVars>>

NoResult == [to_keep |-> <<>>, to_delete |-> <<>>]
NoSummary == [deleted |-> -1, bytes |-> -1, retained |-> -1]
\* Python's None
None == "None"
NoResponse == [op |-> "none"]
\* no cleanup pass is running in another process
NoPeer == [pc |-> "idle", to_delete |-> <<>>, idx |-> 0]

\* no codec run and no HTTP request
OthersAtRest ==
    /\ s3_key = None
    /\ decoded = None
    /\ clients = {}
    /\ relics = {}
    /\ comments = {}
    /\ blobs = {}
    /\ response = NoResponse
    /\ peer = NoPeer

(***************************************************************************)
(* The classifier as a function: an input list and a now are drawn, the    *)
(* function is applied, and applied again to the same (now tagged) list.   *)
(***************************************************************************)
InitClassify ==
    /\ now \in Nows
    /\ store = {}
    /\ pc = "input"
    /\ backups \in InputLists(MaxLen)
    /\ to_keep = <<>>
    /\ to_delete = <<>>
    /\ rerun = NoResult
    /\ idx = 0
    /\ deleted_count = 0
    /\ deleted_bytes = 0
    /\ attempted = <<>>
    /\ list_failed = FALSE
    /\ summary = NoSummary
    /\ classify_failed = FALSE
    /\ bpc = "idle"
    /\ btype = "none"
    /\ attempt = 0
    /\ waits = <<>>
    /\ returned = "none"
    /\ uploaded = {}
    /\ OthersAtRest

ClassifyOnce ==
    /\ pc = "input"
    /\ LET result == classify_backups(backups, now)
       IN  /\ to_keep' = result.to_keep
           /\ to_delete' = result.to_delete
           /\ backups' = tagged_input(backups, result)
    /\ pc' = "classified"
    /\ UNCHANGED <<now, store, rerun, idx, deleted_count, deleted_bytes,
                   attempted, list_failed, summary, classify_failed, backupVars, otherVars>>

ClassifyAgain ==
    /\ pc = "classified"
    /\ LET result == classify_backups(backups, now)
       IN  /\ rerun' = result
           /\ backups' = tagged_input(backups, result)
    /\ pc' = "reclassified"
    /\ UNCHANGED <<now, store, to_keep, to_delete, idx, deleted_count,
                   deleted_bytes, attempted, list_failed, summary,
                   classify_failed, backupVars, otherVars>>

NextClassify == ClassifyOnce \/ ClassifyAgain

SpecClassify == InitClassify /\ [][NextClassify]_vars

\* the classifier applied once to each input
NextClassifyOnce == ClassifyOnce

SpecClassifyOnce == InitClassify /\ [][NextClassifyOnce]_vars

(***************************************************************************)
(* The classifier applied again to what a first pass left: the listing     *)
(* less the snapshots whose delete went through, or the to_keep list.      *)
(***************************************************************************)
\* the listing of the store in the opposite order
relisted_reversed(listed, gone) ==
    LET left == SelectSeq(listed, LAMBDA b : b.key \notin gone)
    IN  [j \in 1..Len(left) |-> left[Len(left) + 1 - j]]

\* list_all_backups at the next pass: the store is listed as before, less the
\* objects with a key of `gone`
relisted(listed, gone) == SelectSeq(listed, LAMBDA b : b.key \notin gone)

\* a pass deleted some of to_delete (the other deletes failed) and the next
\* pass, at the same instant, lists and classifies what is left
SecondPass ==
    /\ pc = "classified"
    /\ \E outcomes \in [1..Len(to_delete) -> {"ok", "error"}] :
          LET gone == {to_delete[j].key : j \in {n \in 1..Len(to_delete) :
                                                    outcomes[n] = "ok"}}
              listed == relisted(backups, gone)
              result == classify_backups(listed, now)
          IN  /\ attempted' = [j \in 1..Len(to_delete) |->
                                  [key |-> to_delete[j].key, outcome |-> outcomes[j]]]
              /\ rerun' = result
              /\ backups' = tagged_input(listed, result)
    /\ pc' = "second_pass"
    /\ UNCHANGED <<now, store, to_keep, to_delete, idx, deleted_count,
                   deleted_bytes, list_failed, summary, classify_failed,
                   backupVars, otherVars>>

\* classify_backups applied to the to_keep list of the first call
ClassifyKept ==
    /\ pc = "classified"
    /\ LET result == classify_backups(to_keep, now)
       IN  /\ rerun' = result
           /\ backups' = tagged_input(to_keep, result)
    /\ pc' = "kept_again"
    /\ UNCHANGED <<now, store, to_keep, to_delete, idx, deleted_count,
                   deleted_bytes, attempted, list_failed, summary,
                   classify_failed, backupVars, otherVars>>

NextStable == ClassifyOnce \/ SecondPass \/ ClassifyKept

\* the instants of the passes: a week and a month after the snapshots
StableNows == { DT(2025, 1, 9, 13, 0, 0), DT(2025, 2, 5, 3, 0, 0) }

InitStable ==
    /\ now \in StableNows
    /\ store = {}
    /\ pc = "input"
    /\ backups \in InputLists(MaxLen)
    /\ to_keep = <<>>
    /\ to_delete = <<>>
    /\ rerun = NoResult
    /\ idx = 0
    /\ deleted_count = 0
    /\ deleted_bytes = 0
    /\ attempted = <<>>
    /\ list_failed = FALSE
    /\ summary = NoSummary
    /\ classify_failed = FALSE
    /\ bpc = "idle"
    /\ btype = "none"
    /\ attempt = 0
    /\ waits = <<>>
    /\ returned = "none"
    /\ uploaded = {}
    /\ OthersAtRest

SpecStable == InitStable /\ [][NextStable]_vars

(***************************************************************************)
(* Scenario A: the classifier applied to ten snapshots, one per day for    *)
(* the last ten days, taken by the scheduled backup at 02:00 and           *)
(* classified by the cleanup job at 03:00.                                 *)
(***************************************************************************)
\* the date of a day number: the inverse of DaysFromCivil
CivilFromDays(z) ==
    LET zz  == z + 719468
        era == zz \div 146097
        doe == zz - era * 146097
        yoe == (doe - doe \div 1460 + doe \div 36524 - doe \div 146096) \div 365
        doy == doe - (365 * yoe + yoe \div 4 - yoe \div 100)
        mp  == (5 * doy + 2) \div 153
        d   == doy - (153 * mp + 2) \div 5 + 1
        mo  == IF mp < 10 THEN mp + 3 ELSE mp - 9
        y   == yoe + era * 400 + (IF mo <= 2 THEN 1 ELSE 0)
    IN  [year |-> y, month |-> mo, day |-> d]

\* the instant h:00:00 of the day with number z
AtHour(z, h) ==
    LET c == CivilFromDays(z) IN DT(c.year, c.month, c.day, h, 0, 0)

\* the number of days of the scenario and the first day of now
ScenarioDays == 75
ScenarioFirstDay == DaysFromCivil(2024, 12, 22)

\* every weekday and day of month, over the ends of a year and of two months
ScenarioNows == { AtHour(ScenarioFirstDay + n, 3) : n \in 0..(ScenarioDays - 1) }

\* the snapshots of the ten days up to the day of nowv, newest first
ScenarioA(nowv) ==
    [j \in 1..10 |->
        Backup(generate_backup_filename("scheduled", AtHour(Ordinal(nowv) - (j - 1), 2)), 1)]

Reversed(l) == [j \in 1..Len(l) |-> l[Len(l) + 1 - j]]

InitScenarioA ==
    /\ now \in ScenarioNows
    /\ store = {}
    /\ pc = "input"
    /\ backups \in {ScenarioA(now), Reversed(ScenarioA(now))}
    /\ to_keep = <<>>
    /\ to_delete = <<>>
    /\ rerun = NoResult
    /\ idx = 0
    /\ deleted_count = 0
    /\ deleted_bytes = 0
    /\ attempted = <<>>
    /\ list_failed = FALSE
    /\ summary = NoSummary
    /\ classify_failed = FALSE
    /\ bpc = "idle"
    /\ btype = "none"
    /\ attempt = 0
    /\ waits = <<>>
    /\ returned = "none"
    /\ uploaded = {}
    /\ OthersAtRest

SpecScenarioA == InitScenarioA /\ [][NextClassify]_vars

(***************************************************************************)
(* The object store behind storage_service.                                *)
(***************************************************************************)
Object(k, sz) == [key |-> k, size |-> sz]

\* the stores of at most n of the given objects, with pairwise different keys
Stores(objects, n) ==
    { st \in SUBSET objects :
        /\ Cardinality(st) <= n
        /\ \A a, b \in st : a.key = b.key => a = b }

\* client.list_objects(prefix='db/'): the objects of the store in some order
Listings(st) ==
    { l \in [1..Cardinality(st) -> st] : \A a, b \in 1..Cardinality(st) :
                                            a # b => l[a] # l[b] }

\* storage_service.upload(key, data): the object replaces one of the same key
storage_upload(st, k, sz) == {o \in st : o.key # k} \cup {Object(k, sz)}

\* storage_service.delete(key): removes the object, or raises and removes nothing
storage_delete(st, k, outcome) ==
    IF outcome = "ok" THEN {o \in st : o.key # k} ELSE st

(***************************************************************************)
(* cleanup_old_backups and list_all_backups.                               *)
(***************************************************************************)
\* the listing raises after `failure` objects were iterated; NoFailure(l): never
NoFailure(objects) == Len(objects) + 1

\* the objects whose key parse_backup_timestamp decodes, in listing order
RECURSIVE decodable_objects(_, _)
decodable_objects(objects, n) ==
    IF n = 0 THEN <<>>
    ELSE IF parse_backup_timestamp(objects[n].key) = ValueError
         THEN decodable_objects(objects, n - 1)
         ELSE Append(decodable_objects(objects, n - 1), objects[n])

\* the list built so far is returned when the listing raises
list_all_backups_partial(objects, failure) ==
    LET seen == decodable_objects(objects,
                    IF failure < Len(objects) THEN failure ELSE Len(objects))
    IN  [j \in 1..Len(seen) |-> Backup(seen[j].key, seen[j].size)]

\* a key that does not decode ends the listing: the ValueError reaches the
\* outer handler
list_all_backups_abort(objects, failure) ==
    IF failure <= Len(objects) THEN <<>>
    ELSE IF \E j \in 1..Len(objects) : parse_backup_timestamp(objects[j].key) = ValueError
         THEN <<>>
         ELSE [j \in 1..Len(objects) |-> Backup(objects[j].key, objects[j].size)]

\* the dicts of the listed objects whose key decodes (an object whose key
\* raises ValueError is skipped), or [] when the listing raises
list_all_backups(objects, failure) ==
    IF failure <= Len(objects) THEN <<>>
    ELSE LET seen == decodable_objects(objects, Len(objects))
         IN  [j \in 1..Len(seen) |-> Backup(seen[j].key, seen[j].size)]

\* for backup in to_keep
deletion_list_kept(result) == result.to_keep

\* for backup in to_delete
deletion_list(result) == result.to_delete

\* one iteration of the deletion loop that stops at the first failure
delete_iteration_abort(st, backup, n, outcome) ==
    IF outcome = "ok"
    THEN [idx |-> st.idx + 1,
          deleted_count |-> st.deleted_count + 1,
          deleted_bytes |-> st.deleted_bytes + backup.size]
    ELSE [st EXCEPT !.idx = n + 1]

\* one iteration of the deletion loop that counts a failed delete too
delete_iteration_count_all(st, backup, n, outcome) ==
    [idx |-> st.idx + 1,
     deleted_count |-> st.deleted_count + 1,
     deleted_bytes |-> st.deleted_bytes + backup.size]

\* one iteration of the deletion loop over a list of n backups: the counters
\* grow when the delete returned, the except clause only logs
delete_iteration(st, backup, n, outcome) ==
    IF outcome = "ok"
    THEN [idx |-> st.idx + 1,
          deleted_count |-> st.deleted_count + 1,
          deleted_bytes |-> st.deleted_bytes + backup.size]
    ELSE [st EXCEPT !.idx = st.idx + 1]

PassNows == { DT(2025, 1, 9, 13, 0, 0), DT(2025, 2, 5, 3, 0, 0) }

\* the sizes of the dumps perform_backup uploads
UploadSizes == {3}

\* the objects the store may hold at the start
InitObjects ==
    { Object(FullKey(2024, 12, 30, 2, 0, 0), 2),
      Object(MarkerKey(2024, 12, 31, "startup"), 1),
      Object(MarkerKey(2024, 12, 31, "shutdown"), 1),
      Object(FullKey(2025, 1, 1, 2, 0, 0), 2),
      Object(FullKey(2025, 1, 2, 2, 0, 0), 1),
      Object(FullKey(2025, 1, 3, 12, 0, 0), 2),
      Object(MarkerKey(2025, 1, 9, "startup"), 1),
      Object(OtherKey, 1) }

Init ==
    /\ now \in PassNows
    /\ store \in Stores(InitObjects, MaxStore)
    /\ pc = "idle"
    /\ backups = <<>>
    /\ to_keep = <<>>
    /\ to_delete = <<>>
    /\ rerun = NoResult
    /\ idx = 0
    /\ deleted_count = 0
    /\ deleted_bytes = 0
    /\ attempted = <<>>
    /\ list_failed = FALSE
    /\ summary = NoSummary
    /\ classify_failed = FALSE
    /\ bpc = "idle"
    /\ btype = "none"
    /\ attempt = 0
    /\ waits = <<>>
    /\ returned = "none"
    /\ uploaded = {}
    /\ OthersAtRest

\* the outer handler of cleanup_old_backups lets the exception through
cleanup_except_reraise(stage) == "raised"

\* the outer handler of cleanup_old_backups, entered when `stage` of the try
\* block raised: it logs "Cleanup failed" and the function returns
cleanup_except(stage) == "done"

\* cleanup_old_backups up to its first await of storage_service.delete: the
\* listing, the classification (which returns, or raises) and the two early
\* returns
CleanupStart ==
    /\ pc = "idle"
    /\ \E objects \in Listings(store) :
       \E failure \in 0..NoFailure(objects) :
       \E classify_raises \in IF list_all_backups(objects, failure) = <<>>
                               THEN {FALSE} ELSE BOOLEAN :
          LET listed == list_all_backups(objects, failure)
              result == classify_backups(listed, now)
              target == deletion_list(result)
          IN  /\ list_failed' = (failure <= Len(objects))
              /\ classify_failed' = classify_raises
              /\ IF listed = <<>>
                 THEN /\ backups' = listed
                      /\ to_keep' = <<>>
                      /\ to_delete' = <<>>
                      /\ pc' = "done"
                 ELSE IF classify_raises
                 THEN /\ backups' = listed
                      /\ to_keep' = <<>>
                      /\ to_delete' = <<>>
                      /\ pc' = cleanup_except("classify")
                 ELSE /\ backups' = tagged_input(listed, result)
                      /\ to_keep' = result.to_keep
                      /\ to_delete' = target
                      /\ pc' = IF target = <<>> THEN "done" ELSE "deleting"
    /\ idx' = 1
    /\ UNCHANGED <<now, store, rerun, deleted_count, deleted_bytes, attempted,
                   summary, backupVars, otherVars>>

\* one iteration of the deletion loop; after the last one the summary is logged
DeleteStep ==
    /\ pc = "deleting"
    /\ idx <= Len(to_delete)
    /\ \E outcome \in {"ok", "error"} :
          LET backup == to_delete[idx]
              st == delete_iteration(
                        [idx |-> idx, deleted_count |-> deleted_count,
                         deleted_bytes |-> deleted_bytes],
                        backup, Len(to_delete), outcome)
          IN  /\ attempted' = Append(attempted, [key |-> backup.key, outcome |-> outcome])
              /\ store' = storage_delete(store, backup.key, outcome)
              /\ idx' = st.idx
              /\ deleted_count' = st.deleted_count
              /\ deleted_bytes' = st.deleted_bytes
              /\ IF st.idx > Len(to_delete)
                 THEN /\ pc' = "done"
                      /\ summary' = [deleted |-> st.deleted_count,
                                     bytes |-> st.deleted_bytes,
                                     retained |-> Len(to_keep)]
                 ELSE /\ pc' = "deleting"
                      /\ summary' = summary
    /\ UNCHANGED <<now, backups, to_keep, to_delete, rerun, list_failed,
                   classify_failed, backupVars, otherVars>>

\* cleanup_old_backups returns: its locals are gone
CleanupReturn ==
    /\ pc = "done"
    /\ pc' = "idle"
    /\ backups' = <<>>
    /\ to_keep' = <<>>
    /\ to_delete' = <<>>
    /\ idx' = 0
    /\ deleted_count' = 0
    /\ deleted_bytes' = 0
    /\ attempted' = <<>>
    /\ list_failed' = FALSE
    /\ summary' = NoSummary
    /\ classify_failed' = FALSE
    /\ UNCHANGED <<now, store, rerun, backupVars, otherVars>>

\* perform_backup: an attempt uploads the dump under the key of now, or all
\* three attempts fail and nothing is stored
PerformBackup ==
    /\ pc # "done"
    /\ \/ \E backup_type \in BackupTypes, sz \in UploadSizes :
             LET key == generate_backup_filename(backup_type, now)
             IN  /\ Cardinality(storage_upload(store, key, sz)) <= MaxStore
                 /\ store' = storage_upload(store, key, sz)
       \/ store' = store
    /\ UNCHANGED <<now, pc, backups, to_keep, to_delete, rerun, idx,
                   deleted_count, deleted_bytes, attempted, list_failed, summary,
                   classify_failed, backupVars, otherVars>>

\* time passes
Tick ==
    /\ pc # "done"
    /\ \E t \in PassNows : Before(now, t) /\ now' = t
    /\ UNCHANGED <<store, pc, backups, to_keep, to_delete, rerun, idx,
                   deleted_count, deleted_bytes, attempted, list_failed, summary,
                   classify_failed, backupVars, otherVars>>

Next == CleanupStart \/ DeleteStep \/ CleanupReturn \/ PerformBackup \/ Tick

Spec == Init /\ [][Next]_vars

(***************************************************************************)
(* A cleanup pass that is cancelled in its deletion loop.                  *)
(***************************************************************************)
\* `except Exception` that would catch every exception, CancelledError too
except_Exception_catches_all(exc) == TRUE

\* `except Exception as e`: asyncio.CancelledError derives from BaseException
\* and is not caught
except_Exception_catches(exc) == exc # "CancelledError"

\* the task is cancelled (a shutdown, a timeout around the pass) while it
\* awaits storage_service.delete: the request may or may not have reached the
\* store; neither handler catches the CancelledError, so the pass ends there
\* with no summary
CancelDelete ==
    /\ pc = "deleting"
    /\ idx <= Len(to_delete)
    /\ \E took_effect \in BOOLEAN :
          LET backup == to_delete[idx]
          IN  /\ attempted' = Append(attempted,
                                     [key |-> backup.key, outcome |-> "cancelled"])
              /\ store' = storage_delete(store, backup.key,
                                         IF took_effect THEN "ok" ELSE "error")
              /\ IF except_Exception_catches("CancelledError")
                 THEN /\ idx' = idx + 1
                      /\ pc' = IF idx + 1 > Len(to_delete) THEN "done" ELSE "deleting"
                      /\ summary' = IF idx + 1 > Len(to_delete)
                                    THEN [deleted |-> deleted_count,
                                          bytes |-> deleted_bytes,
                                          retained |-> Len(to_keep)]
                                    ELSE summary
                 ELSE /\ idx' = idx
                      /\ pc' = "cancelled"
                      /\ summary' = summary
    /\ UNCHANGED <<now, backups, to_keep, to_delete, rerun, deleted_count,
                   deleted_bytes, list_failed, classify_failed, backupVars,
                   otherVars>>

\* the cancelled task is gone, and its locals with it
CancelledReturn ==
    /\ pc = "cancelled"
    /\ pc' = "idle"
    /\ backups' = <<>>
    /\ to_keep' = <<>>
    /\ to_delete' = <<>>
    /\ idx' = 0
    /\ deleted_count' = 0
    /\ deleted_bytes' = 0
    /\ attempted' = <<>>
    /\ list_failed' = FALSE
    /\ summary' = NoSummary
    /\ classify_failed' = FALSE
    /\ UNCHANGED <<now, store, rerun, backupVars, otherVars>>

NextCancel ==
    \/ CleanupStart
    \/ DeleteStep
    \/ CancelDelete
    \/ CancelledReturn
    \/ CleanupReturn
    \/ PerformBackup
    \/ Tick

SpecCancel == Init /\ [][NextCancel]_vars

(***************************************************************************)
(* Two cleanup passes that overlap (the scheduler of a second process      *)
(* fires the same job), with perform_backup running at any point.          *)
(***************************************************************************)
\* the date of a key as one number, YYYYMMDD
KeyDate(k) == (int(k.year) * 100 + int(k.month)) * 100 + int(k.day)

\* the time of day of a timestamped key as one number, HHMMSS
KeyTime(k) == (int(k.hour) * 100 + int(k.minute)) * 100 + int(k.second)

\* object name a sorts before object name b: the names of the backups differ
\* from the date on, a digit sorts before a letter and "shutdown" before
\* "startup"; db/notabackup.txt sorts after every db/backup-...
KeyBefore(a, b) ==
    IF a.kind = "other" THEN FALSE
    ELSE IF b.kind = "other" THEN TRUE
    ELSE IF KeyDate(a) # KeyDate(b) THEN KeyDate(a) < KeyDate(b)
    ELSE IF a.kind = "full" /\ b.kind = "full" THEN KeyTime(a) < KeyTime(b)
    ELSE IF a.kind = "full" THEN TRUE
    ELSE IF b.kind = "full" THEN FALSE
    ELSE a.kind = "shutdown" /\ b.kind = "startup"

\* a list of objects or of backup dicts is in the order of the object names
InKeyOrder(l) ==
    \A a, b \in 1..Len(l) : a < b => KeyBefore(l[a].key, l[b].key)

\* client.list_objects(prefix='db/', recursive=True): the store lists its
\* objects in the order of their names
list_objects(st) == CHOOSE l \in Listings(st) : InKeyOrder(l)

\* the start of a pass whose listing came in the order of the object names
CleanupStartInKeyOrder == CleanupStart /\ InKeyOrder(backups')

\* the pass of the other process up to its first delete: it lists the store
\* and classifies the listing
PeerStart ==
    /\ peer.pc = "idle"
    /\ LET listed == list_all_backups(list_objects(store),
                                      NoFailure(list_objects(store)))
           target == deletion_list(classify_backups(listed, now))
       IN  peer' = IF target = <<>> THEN NoPeer
                   ELSE [pc |-> "deleting", to_delete |-> target, idx |-> 1]
    /\ UNCHANGED <<now, store, pc, backups, to_keep, to_delete, rerun, idx,
                   deleted_count, deleted_bytes, attempted, list_failed, summary,
                   classify_failed, backupVars, codecVars, webVars>>

\* one iteration of the deletion loop of the other pass; after the last one
\* the pass returns
PeerDelete ==
    /\ peer.pc = "deleting"
    /\ \E outcome \in {"ok", "error"} :
          store' = storage_delete(store, peer.to_delete[peer.idx].key, outcome)
    /\ peer' = IF peer.idx = Len(peer.to_delete) THEN NoPeer
               ELSE [peer EXCEPT !.idx = peer.idx + 1]
    /\ UNCHANGED <<now, pc, backups, to_keep, to_delete, rerun, idx,
                   deleted_count, deleted_bytes, attempted, list_failed, summary,
                   classify_failed, backupVars, codecVars, webVars>>

NextOverlap ==
    \/ CleanupStartInKeyOrder
    \/ DeleteStep
    \/ CleanupReturn
    \/ PeerStart
    \/ PeerDelete
    \/ PerformBackup
    \/ Tick

\* the objects the store may hold when the passes overlap: two markers of one
\* day, a snapshot of the day before, and two snapshots of the next month
OverlapObjects ==
    { Object(FullKey(2024, 12, 30, 2, 0, 0), 2),
      Object(MarkerKey(2024, 12, 31, "startup"), 1),
      Object(MarkerKey(2024, 12, 31, "shutdown"), 1),
      Object(FullKey(2025, 1, 1, 2, 0, 0), 2),
      Object(MarkerKey(2025, 1, 9, "startup"), 1) }

InitOverlap ==
    /\ now \in PassNows
    /\ store \in Stores(OverlapObjects, MaxStore)
    /\ pc = "idle"
    /\ backups = <<>>
    /\ to_keep = <<>>
    /\ to_delete = <<>>
    /\ rerun = NoResult
    /\ idx = 0
    /\ deleted_count = 0
    /\ deleted_bytes = 0
    /\ attempted = <<>>
    /\ list_failed = FALSE
    /\ summary = NoSummary
    /\ classify_failed = FALSE
    /\ bpc = "idle"
    /\ btype = "none"
    /\ attempt = 0
    /\ waits = <<>>
    /\ returned = "none"
    /\ uploaded = {}
    /\ OthersAtRest

SpecOverlap == InitOverlap /\ [][NextOverlap]_vars

(***************************************************************************)
(* perform_backup step by step: one step per attempt of the loop, one per  *)
(* asyncio.sleep, beside the cleanup pass (the scheduler runs both on one  *)
(* event loop).                                                            *)
(***************************************************************************)
\* the steps of an attempt that can raise, and "ok" when none does
AttemptOutcomes == {"ok", "dump", "compress", "upload"}

\* a backoff that starts at one second
wait_time_from_one(n) == 2 ^ (n - 1)

\* wait_time = 2 ** attempt
wait_time(n) == 2 ^ n

\* a handler whose last branch raises instead of returning False
attempt_except_reraise(n) == IF n < 3 THEN "sleeping" ELSE "raised"

\* the handler of a failed attempt n: sleep and go on while attempt < 3,
\* else log and return False
attempt_except(n) == IF n < 3 THEN "sleeping" ELSE "returned"

TaskNows == { DT(2025, 2, 5, 3, 0, 0), DT(2025, 2, 5, 15, 0, 0) }

\* the store at the start: the older snapshot has expired on the day of
\* TaskNows, the newer one is the monthly snapshot of its month
TaskObjects ==
    { Object(FullKey(2024, 12, 30, 2, 0, 0), 2),
      Object(MarkerKey(2024, 12, 31, "startup"), 1) }

\* no task is running
AtRest ==
    /\ pc = "idle"
    /\ backups = <<>>
    /\ to_keep = <<>>
    /\ to_delete = <<>>
    /\ rerun = NoResult
    /\ idx = 0
    /\ deleted_count = 0
    /\ deleted_bytes = 0
    /\ attempted = <<>>
    /\ list_failed = FALSE
    /\ summary = NoSummary
    /\ classify_failed = FALSE
    /\ bpc = "idle"
    /\ btype = "none"
    /\ attempt = 0
    /\ waits = <<>>
    /\ returned = "none"
    /\ uploaded = {}
    /\ OthersAtRest

InitTasks ==
    /\ now \in TaskNows
    /\ store = TaskObjects
    /\ AtRest

InitBackup ==
    /\ now \in TaskNows
    /\ store \in SUBSET TaskObjects
    /\ AtRest

passVars == <<pc, backups, to_keep, to_delete, rerun, idx, deleted_count,
              deleted_bytes, attempted, list_failed, summary, classify_failed>>

\* perform_backup(backup_type) is called: the loop starts with attempt 1
BackupStart ==
    /\ bpc = "idle"
    /\ pc # "done"
    /\ \E backup_type \in BackupTypes : btype' = backup_type
    /\ bpc' = "attempting"
    /\ attempt' = 1
    /\ waits' = <<>>
    /\ returned' = "none"
    /\ UNCHANGED <<now, store, uploaded, passVars, otherVars>>

\* one attempt: dump, compress, upload under the key of now and return True,
\* or the handler of the step that raised
BackupAttempt ==
    /\ bpc = "attempting"
    /\ pc # "done"
    /\ \E outcome \in AttemptOutcomes, sz \in UploadSizes :
          IF outcome = "ok"
          THEN LET key == generate_backup_filename(btype, now)
               IN  /\ Cardinality(storage_upload(store, key, sz)) <= MaxStore
                   /\ store' = storage_upload(store, key, sz)
                   /\ uploaded' = IF btype \in MarkerKinds
                                  THEN uploaded \cup {[backup_type |-> btype, at |-> now]}
                                  ELSE uploaded
                   /\ bpc' = "returned"
                   /\ returned' = "True"
                   /\ waits' = waits
          ELSE /\ bpc' = attempt_except(attempt)
               /\ waits' = IF attempt < 3 THEN Append(waits, wait_time(attempt))
                                          ELSE waits
               /\ returned' = IF bpc' = "returned" THEN "False" ELSE "none"
               /\ UNCHANGED <<store, uploaded>>
    /\ UNCHANGED <<now, btype, attempt, passVars, otherVars>>

\* the sleep is over: the next attempt of the loop
BackupWake ==
    /\ bpc = "sleeping"
    /\ pc # "done"
    /\ bpc' = "attempting"
    /\ attempt' = attempt + 1
    /\ UNCHANGED <<now, store, btype, waits, returned, uploaded, passVars, otherVars>>

\* the caller has the boolean
BackupReturn ==
    /\ bpc = "returned"
    /\ pc # "done"
    /\ bpc' = "idle"
    /\ btype' = "none"
    /\ attempt' = 0
    /\ waits' = <<>>
    /\ returned' = "none"
    /\ UNCHANGED <<now, store, uploaded, passVars, otherVars>>

\* time passes
TaskTick ==
    /\ pc # "done"
    /\ \E t \in TaskNows : Before(now, t) /\ now' = t
    /\ UNCHANGED <<store, passVars, backupVars, otherVars>>

\* perform_backup alone, called again and again as the day goes on
NextBackup == BackupStart \/ BackupAttempt \/ BackupWake \/ BackupReturn \/ TaskTick

SpecBackup == InitBackup /\ [][NextBackup]_vars

\* perform_backup and cleanup_old_backups side by side at one instant
NextTasks ==
    \/ BackupStart \/ BackupAttempt \/ BackupWake \/ BackupReturn
    \/ CleanupStart \/ DeleteStep \/ CleanupReturn

SpecTasks == InitTasks /\ [][NextTasks]_vars

(***************************************************************************)
(* The codec as a pair of functions: a key of any shape is given, or one   *)
(* is generated at the instant now, and parse_backup_timestamp is applied. *)
(***************************************************************************)
\* the key db/<lead>backup-<y>-<mo>-<d>-<h>-<mi>-<s>.sql.gz<trail>
ExactName(lead, y, mo, d, h, mi, s, trail) ==
    [lead |-> lead, kind |-> "full", year |-> y, month |-> mo, day |-> d,
     hour |-> h, minute |-> mi, second |-> s, trail |-> trail]

\* the key db/<lead>backup-<y>-<mo>-<d>-<word>.sql.gz<trail>
WordName(lead, y, mo, d, word, trail) ==
    [lead |-> lead, kind |-> word, year |-> y, month |-> mo, day |-> d,
     hour |-> <<>>, minute |-> <<>>, second |-> <<>>, trail |-> trail]

\* the instants of the codec runs: one and two digit fields, both halves and
\* both ends of a day, of a month and of a year, and a leap day
CodecTimes ==
    { DT(y, mo, d, h, mi, s) :
        y \in {1999, 2024}, mo \in {1, 2, 10, 12}, d \in {1, 9, 28},
        h \in {0, 9, 12, 23}, mi \in {0, 59}, s \in {0, 7, 59} }
    \cup { DT(2024, 2, 29, 23, 59, 59), DT(2024, 12, 31, 14, 30, 5) }

\* keys of the two shapes, of the two shapes with characters around the
\* segment, with digits that are no date, and of other shapes
GivenKeys ==
    { ExactName("", <<2,0,2,4>>, <<0,1>>, <<1,5>>, <<0,2>>, <<0,0>>, <<0,0>>, ""),
      WordName("", <<2,0,2,4>>, <<0,1>>, <<1,5>>, "startup", ""),
      WordName("", <<2,0,2,4>>, <<0,2>>, <<2,9>>, "shutdown", ""),
      ExactName("", <<2,0,2,4>>, <<0,1>>, <<1,5>>, <<0,2>>, <<0,0>>, <<0,0>>, ".tmp"),
      ExactName("old-", <<2,0,2,4>>, <<0,1>>, <<1,5>>, <<0,2>>, <<0,0>>, <<0,0>>, ""),
      WordName("pre-", <<2,0,2,4>>, <<0,1>>, <<1,5>>, "startup", ".bak"),
      WordName("", <<2,0,2,4>>, <<0,1>>, <<1,5>>, "nightly", ""),
      ExactName("", <<2,0,2,4>>, <<1>>, <<1,5>>, <<0,2>>, <<0,0>>, <<0,0>>, ""),
      ExactName("", <<2,0,2,4>>, <<1,3>>, <<0,1>>, <<0,2>>, <<0,0>>, <<0,0>>, ""),
      ExactName("", <<2,0,2,3>>, <<0,2>>, <<2,9>>, <<0,2>>, <<0,0>>, <<0,0>>, ""),
      ExactName("", <<2,0,2,4>>, <<0,1>>, <<1,5>>, <<2,4>>, <<0,0>>, <<0,0>>, ""),
      WordName("", <<2,0,2,4>>, <<0,4>>, <<3,1>>, "shutdown", ""),
      WordName("", <<2,0,2,4>>, <<0,0>>, <<1,0>>, "startup", ""),
      OtherKey }

InitCodec ==
    /\ now \in CodecTimes
    /\ s3_key \in GivenKeys
    /\ decoded = None
    /\ pc = "given"
    /\ btype = "none"
    /\ store = {}
    /\ backups = <<>>
    /\ to_keep = <<>>
    /\ to_delete = <<>>
    /\ rerun = NoResult
    /\ idx = 0
    /\ deleted_count = 0
    /\ deleted_bytes = 0
    /\ attempted = <<>>
    /\ list_failed = FALSE
    /\ summary = NoSummary
    /\ classify_failed = FALSE
    /\ bpc = "idle"
    /\ attempt = 0
    /\ waits = <<>>
    /\ returned = "none"
    /\ uploaded = {}
    /\ clients = {}
    /\ relics = {}
    /\ comments = {}
    /\ blobs = {}
    /\ response = NoResponse
    /\ peer = NoPeer

\* key = generate_backup_filename(backup_type) at the instant now
Generate ==
    /\ pc = "given"
    /\ \E backup_type \in BackupTypes :
          /\ btype' = backup_type
          /\ s3_key' = generate_backup_filename(backup_type, now)
    /\ pc' = "generated"
    /\ UNCHANGED <<now, store, backups, to_keep, to_delete, rerun, idx,
                   deleted_count, deleted_bytes, attempted, list_failed, summary,
                   classify_failed, bpc, attempt, waits, returned, uploaded,
                   decoded, webVars, peerVars>>

\* timestamp = parse_backup_timestamp(key)
Parse ==
    /\ pc \in {"given", "generated"}
    /\ decoded' = parse_backup_timestamp(s3_key)
    /\ pc' = "decoded"
    /\ UNCHANGED <<now, store, backups, to_keep, to_delete, rerun, idx,
                   deleted_count, deleted_bytes, attempted, list_failed, summary,
                   classify_failed, backupVars, s3_key, webVars, peerVars>>

NextCodec == Generate \/ Parse

SpecCodec == InitCodec /\ [][NextCodec]_vars

(***************************************************************************)
(* The HTTP handlers of backend/main.py over the tables client_key, relic  *)
(* and comment.                                                            *)
(***************************************************************************)
\* largest number of rows of table comment
MaxComments == 2

\* no row: what .first() returns when the query matches nothing
NoClient == [id |-> None, name |-> None]
NoRelic == [id |-> None, client_id |-> None, name |-> None, access_level |-> None]

\* settings.get_admin_client_ids(): the second id has no row in client_key
AdminClientIds == {"dddd", "ffff"}

\* the registered clients; the client cccc has set no display name
Clients ==
    { [id |-> "aaaa", name |-> "Client A"], [id |-> "bbbb", name |-> "Client B"],
      [id |-> "cccc", name |-> None],       [id |-> "dddd", name |-> "Admin"] }

\* the values of the X-Client-Key header; None: the request has none
Headers == {None, "aaaa", "bbbb", "cccc", "dddd", "eeee", "ffff"}

\* the relic ids of the requests: r1 exists, r0 does not
RelicIds == {"r1", "r0"}

\* the bodies of a PUT: a field that is None is left as it is
Updates == [name : {None, "New Name"}, access_level : {None, "private"}]

\* db.query(ClientKey).filter(ClientKey.id == x_client_key).first()
get_client_key(header) ==
    IF header = None THEN NoClient
    ELSE IF \E c \in clients : c.id = header
         THEN CHOOSE c \in clients : c.id = header
         ELSE NoClient

\* db.query(Relic).filter(Relic.id == relic_id).first()
get_relic(relic_id) ==
    IF \E r \in relics : r.id = relic_id
    THEN CHOOSE r \in relics : r.id = relic_id
    ELSE NoRelic

is_admin_client(client) ==
    IF client = NoClient THEN FALSE ELSE client.id \in AdminClientIds

\* a check that knows no admin
check_ownership_or_admin_owner_only(relic, client, require_auth) ==
    IF require_auth /\ client = NoClient THEN "HTTP401"
    ELSE IF client = NoClient THEN "False"
    ELSE IF relic.client_id = client.id THEN "True" ELSE "False"

\* check_ownership_or_admin: "True", "False", or the 401 it raises
check_ownership_or_admin(relic, client, require_auth) ==
    IF require_auth /\ client = NoClient THEN "HTTP401"
    ELSE IF client = NoClient THEN "False"
    ELSE IF is_admin_client(client) THEN "True"
    ELSE IF relic.client_id = client.id THEN "True" ELSE "False"

\* the assignments of update_relic for the fields that are not None
apply_update(relic, update) ==
    [relic EXCEPT
        !.name = IF update.name # None THEN update.name ELSE @,
        !.access_level = IF update.access_level # None THEN update.access_level ELSE @]

\* update_relic: the status, the body and the table relic afterwards
update_relic(relic_id, update, header) ==
    LET client == get_client_key(header)
        relic == get_relic(relic_id)
    IN  IF client = NoClient
        THEN [status |-> 401, body |-> None, relics |-> relics]
        ELSE IF relic = NoRelic
        THEN [status |-> 404, body |-> None, relics |-> relics]
        ELSE IF check_ownership_or_admin(relic, client, TRUE) # "True"
        THEN [status |-> 403, body |-> None, relics |-> relics]
        ELSE [status |-> 200,
              body |-> [relic |-> apply_update(relic, update), can_edit |-> TRUE],
              relics |-> (relics \ {relic}) \cup {apply_update(relic, update)}]

\* the rows at the start: the clients, and one relic owned by a registered
\* client, by a client with no row, or by nobody
InitWeb ==
    /\ clients = Clients
    /\ relics \in { {[id |-> "r1", client_id |-> owner, name |-> "Original Name",
                      access_level |-> "public"]} : owner \in {"aaaa", "eeee", None} }
    /\ comments = {}
    /\ blobs = {}
    /\ response = NoResponse
    /\ peer = NoPeer
    /\ s3_key = None
    /\ decoded = None
    /\ now \in {DT(2025, 1, 9, 13, 0, 0)}
    /\ store = {}
    /\ pc = "serving"
    /\ backups = <<>>
    /\ to_keep = <<>>
    /\ to_delete = <<>>
    /\ rerun = NoResult
    /\ idx = 0
    /\ deleted_count = 0
    /\ deleted_bytes = 0
    /\ attempted = <<>>
    /\ list_failed = FALSE
    /\ summary = NoSummary
    /\ classify_failed = FALSE
    /\ bpc = "idle"
    /\ btype = "none"
    /\ attempt = 0
    /\ waits = <<>>
    /\ returned = "none"
    /\ uploaded = {}

taskVars == <<now, store, passVars, backupVars, peerVars>>

\* PUT /api/v1/relics/{relic_id}
UpdateRelic ==
    /\ pc = "serving"
    /\ \E relic_id \in RelicIds, update \in Updates, header \in Headers :
          LET r == update_relic(relic_id, update, header)
          IN  /\ relics' = r.relics
              /\ response' = [op |-> "update_relic", relic_id |-> relic_id,
                              header |-> header, arg |-> update,
                              status |-> r.status, body |-> r.body]
    /\ UNCHANGED <<clients, comments, blobs, codecVars, taskVars>>

NextUpdate == UpdateRelic

SpecUpdate == InitWeb /\ [][NextUpdate]_vars

\* the bodies of a POST of a comment
CommentCreates == [line_number : {1, 2}, content : {"This is a comment"}]

\* the ids a new row of table comment can get
CommentIds == 1 .. MaxComments

NoComment == [id |-> None]

\* db.query(Comment).filter(Comment.id == comment_id,
\*                          Comment.relic_id == relic_id).first()
get_comment(relic_id, comment_id) ==
    IF \E c \in comments : c.id = comment_id /\ c.relic_id = relic_id
    THEN CHOOSE c \in comments : c.id = comment_id /\ c.relic_id = relic_id
    ELSE NoComment

\* the column default of created_at: later than every row in the table
created_at_default ==
    IF comments = {} THEN 1
    ELSE 1 + (CHOOSE t \in {c.created_at : c \in comments} :
                 \A c \in comments : c.created_at <= t)

\* the name of the client with this id, None if it has no row (outer join)
author_name_of(client_id) ==
    IF \E c \in clients : c.id = client_id
    THEN (CHOOSE c \in clients : c.id = client_id).name
    ELSE None

\* CommentResponse.from_orm(comment) with author_name set
CommentResponse(comment, author_name) ==
    [id |-> comment.id, relic_id |-> comment.relic_id,
     line_number |-> comment.line_number, content |-> comment.content,
     author_name |-> author_name]

\* order_by(Comment.line_number, Comment.created_at)
RECURSIVE order_by_line_created(_)
order_by_line_created(rows) ==
    IF rows = {} THEN <<>>
    ELSE LET first == CHOOSE c \in rows : \A d \in rows :
                          \/ c.line_number < d.line_number
                          \/ c.line_number = d.line_number /\ c.created_at <= d.created_at
         IN  <<first>> \o order_by_line_created(rows \ {first})

\* create_comment: the status, the body and the table comment afterwards
create_comment(relic_id, comment, header, new_id) ==
    LET relic == get_relic(relic_id)
        client == get_client_key(header)
        db_comment == [id |-> new_id, relic_id |-> relic_id, client_id |-> client.id,
                       line_number |-> comment.line_number, content |-> comment.content,
                       created_at |-> created_at_default]
    IN  IF relic = NoRelic
        THEN [status |-> 404, body |-> None, comments |-> comments]
        ELSE IF client = NoClient
        THEN [status |-> 401, body |-> None, comments |-> comments]
        ELSE IF client.name = None
        THEN [status |-> 400, body |-> None, comments |-> comments]
        ELSE [status |-> 200, body |-> CommentResponse(db_comment, client.name),
              comments |-> comments \cup {db_comment}]

\* get_relic_comments: the status and the body
get_relic_comments(relic_id) ==
    LET relic == get_relic(relic_id)
        results == order_by_line_created({c \in comments : c.relic_id = relic_id})
    IN  IF relic = NoRelic
        THEN [status |-> 404, body |-> None]
        ELSE [status |-> 200,
              body |-> [i \in 1 .. Len(results) |->
                           CommentResponse(results[i], author_name_of(results[i].client_id))]]

\* delete_comment: the status, the body and the table comment afterwards
delete_comment(relic_id, comment_id, header) ==
    LET client == get_client_key(header)
        comment == get_comment(relic_id, comment_id)
    IN  IF client = NoClient
        THEN [status |-> 401, body |-> None, comments |-> comments]
        ELSE IF comment = NoComment
        THEN [status |-> 404, body |-> None, comments |-> comments]
        ELSE IF ~(comment.client_id = client.id \/ is_admin_client(client))
        THEN [status |-> 403, body |-> None, comments |-> comments]
        ELSE [status |-> 200, body |-> "deleted", comments |-> comments \ {comment}]

\* POST /api/v1/relics/{relic_id}/comments
CreateComment ==
    /\ pc = "serving"
    /\ Cardinality(comments) < MaxComments
    /\ created_at_default <= MaxComments + 1
    /\ \E relic_id \in RelicIds, comment \in CommentCreates, header \in Headers,
          new_id \in CommentIds \ {c.id : c \in comments} :
          LET r == create_comment(relic_id, comment, header, new_id)
          IN  /\ comments' = r.comments
              /\ response' = [op |-> "create_comment", relic_id |-> relic_id,
                              header |-> header, arg |-> comment,
                              status |-> r.status, body |-> r.body]
    /\ UNCHANGED <<clients, relics, blobs, codecVars, taskVars>>

\* GET /api/v1/relics/{relic_id}/comments
GetRelicComments ==
    /\ pc = "serving"
    /\ \E relic_id \in RelicIds :
          LET r == get_relic_comments(relic_id)
          IN  response' = [op |-> "get_relic_comments", relic_id |-> relic_id,
                           header |-> None, arg |-> None,
                           status |-> r.status, body |-> r.body]
    /\ UNCHANGED <<clients, relics, comments, blobs, codecVars, taskVars>>

\* DELETE /api/v1/relics/{relic_id}/comments/{comment_id}
DeleteComment ==
    /\ pc = "serving"
    /\ \E relic_id \in RelicIds, comment_id \in CommentIds, header \in Headers :
          LET r == delete_comment(relic_id, comment_id, header)
          IN  /\ comments' = r.comments
              /\ response' = [op |-> "delete_comment", relic_id |-> relic_id,
                              header |-> header, arg |-> comment_id,
                              status |-> r.status, body |-> r.body]
    /\ UNCHANGED <<clients, relics, blobs, codecVars, taskVars>>

NextComments == CreateComment \/ GetRelicComments \/ DeleteComment

SpecComments == InitWeb /\ [][NextComments]_vars

(***************************************************************************)
(* Relic content and relic expiry: create_relic and get_relic_raw of       *)
(* backend/main.py, cleanup_expired_relics of backend/tasks.py.  Here now  *)
(* counts the hours since the service started, rows of table relic are     *)
(* [id, client_id, name, access_level, s3_key, expires_at, deleted_at].    *)
(***************************************************************************)
MAX_UPLOAD_SIZE == 104857600

\* an Optional[datetime]: None, or an hour
NoTime == [none |-> TRUE]
At(t) == [at |-> t]

\* the instants at which something happens
Instants == {0, 1, 2, 721, 722}

\* a form field that was not sent
NotSent == [none |-> TRUE]

\* the uploaded files: sequences of bytes
Contents == { <<82, 97, 119>>, <<>> }
UploadFile(content) == [content |-> content]

\* the ids generate_relic_id can draw
RelicIdPool == {"r1", "r2"}

\* the expires_in form fields: not sent, "1h"
ExpiresIns == {NotSent, [value |-> 1, unit |-> "h"]}

\* multipliers.get(unit, 0), in hours
multipliers_get(unit) ==
    IF unit = "h" THEN 1 ELSE IF unit = "d" THEN 24 ELSE 0

\* parse_expiry_string at the hour t
parse_expiry_string(expires_in, t) ==
    IF expires_in = NotSent THEN NoTime
    ELSE At(t + expires_in.value * multipliers_get(expires_in.unit))

\* is_expired at the hour t
is_expired(expires_at, t) ==
    IF expires_at = NoTime THEN FALSE ELSE t > expires_at.at

\* f"relics/{relic_id}"
relic_s3_key(relic_id) == [prefix |-> "relics", id |-> relic_id]

\* storage_service.upload, .download, .delete and .exists on the objects
\* under relics/, as the in-memory storage of the tests defines them:
\* the download of a key that is not stored returns no bytes
blob_upload(objects, key, content) ==
    {o \in objects : o.key # key} \cup {[key |-> key, content |-> content]}

blob_exists(objects, key) == \E o \in objects : o.key = key

blob_download(objects, key) ==
    IF blob_exists(objects, key)
    THEN (CHOOSE o \in objects : o.key = key).content
    ELSE <<>>

blob_delete(objects, key) == {o \in objects : o.key # key}

\* get_or_create_client_key: the table client_key afterwards
get_or_create_client_key(header) ==
    IF header = None \/ \E c \in clients : c.id = header
    THEN clients
    ELSE clients \cup {[id |-> header, name |-> None]}

\* create_relic: the status, the body and the tables afterwards; storage_up
\* is whether the upload succeeds
create_relic(file, access_level, expires_in, header, relic_id, storage_up) ==
    LET clients_after == get_or_create_client_key(header)
        s3key == relic_s3_key(relic_id)
        relic == [id |-> relic_id, client_id |-> header, name |-> "test.txt",
                  access_level |-> access_level, s3_key |-> s3key,
                  expires_at |-> parse_expiry_string(expires_in, now),
                  deleted_at |-> NoTime]
        unchanged(status, cl) == [status |-> status, body |-> None, clients |-> cl,
                                  relics |-> relics, blobs |-> blobs]
    IN  IF access_level \notin {"public", "private"} THEN unchanged(400, clients)
        ELSE IF file = NotSent THEN unchanged(400, clients_after)
        ELSE IF Len(file.content) > MAX_UPLOAD_SIZE THEN unchanged(413, clients_after)
        ELSE IF ~storage_up THEN unchanged(500, clients_after)
        ELSE [status |-> 200,
              body |-> [id |-> relic_id, size_bytes |-> Len(file.content)],
              clients |-> clients_after,
              relics |-> relics \cup {relic},
              blobs |-> blob_upload(blobs, s3key, file.content)]

\* get_relic_raw: the status and the body; storage_up is whether the
\* download of a stored object succeeds
get_relic_raw(relic_id, storage_up) ==
    LET relic == get_relic(relic_id)
    IN  IF relic = NoRelic THEN [status |-> 404, body |-> None]
        ELSE IF is_expired(relic.expires_at, now) THEN [status |-> 410, body |-> None]
        ELSE IF ~storage_up THEN [status |-> 500, body |-> None]
        ELSE [status |-> 200, body |-> blob_download(blobs, relic.s3_key)]

\* the GET routes of the application with one or two path segments:
\* /health and /{relic_id}/raw; a path no route matches is answered 404
route_get(path) ==
    IF path = <<"health">> THEN "health"
    ELSE IF Len(path) = 2 /\ path[2] = "raw" THEN "get_relic_raw"
    ELSE "none"

\* the paths of the GET requests: /{relic_id} and /{relic_id}/raw
GetPaths ==
    {<<id>> : id \in RelicIdPool} \cup {<<id, "raw">> : id \in RelicIdPool}

InitRelics ==
    /\ clients = {}
    /\ relics = {}
    /\ comments = {}
    /\ blobs = {}
    /\ response = NoResponse
    /\ peer = NoPeer
    /\ s3_key = None
    /\ decoded = None
    /\ now = 0
    /\ store = {}
    /\ pc = "serving"
    /\ backups = <<>>
    /\ to_keep = <<>>
    /\ to_delete = <<>>
    /\ rerun = NoResult
    /\ idx = 0
    /\ deleted_count = 0
    /\ deleted_bytes = 0
    /\ attempted = <<>>
    /\ list_failed = FALSE
    /\ summary = NoSummary
    /\ classify_failed = FALSE
    /\ bpc = "idle"
    /\ btype = "none"
    /\ attempt = 0
    /\ waits = <<>>
    /\ returned = "none"
    /\ uploaded = {}

relicFrame == <<store, passVars, backupVars, codecVars, comments, peerVars>>

\* POST /api/v1/relics
CreateRelic ==
    /\ pc = "serving"
    /\ \E file \in {UploadFile(c) : c \in Contents} \cup {NotSent}, access_level \in {"public", "secret"},
          expires_in \in ExpiresIns, header \in {None},
          relic_id \in RelicIdPool \ {r.id : r \in relics}, storage_up \in BOOLEAN :
          LET r == create_relic(file, access_level, expires_in, header, relic_id, storage_up)
          IN  /\ clients' = r.clients
              /\ relics' = r.relics
              /\ blobs' = r.blobs
              /\ response' = [op |-> "create_relic", relic_id |-> relic_id,
                              header |-> header, arg |-> file,
                              status |-> r.status, body |-> r.body]
    /\ UNCHANGED <<now, relicFrame>>

\* GET /{relic_id} and GET /{relic_id}/raw
GetRequest ==
    /\ pc = "serving"
    /\ \E path \in GetPaths, storage_up \in BOOLEAN :
          LET r == IF route_get(path) = "get_relic_raw"
                   THEN get_relic_raw(path[1], storage_up)
                   ELSE [status |-> 404, body |-> None]
          IN  response' = [op |-> "get", relic_id |-> path[1], header |-> None,
                           arg |-> [path |-> path, storage_up |-> storage_up],
                           status |-> r.status, body |-> r.body]
    /\ UNCHANGED <<now, clients, relics, blobs, relicFrame>>

\* time passes
RelicTick ==
    /\ pc = "serving"
    /\ \E t \in Instants : t > now /\ now' = t
    /\ UNCHANGED <<clients, relics, blobs, response, relicFrame>>

\* timedelta(days=30) in hours
SoftDeletedDays == 30
timedelta_days(n) == 24 * n

\* how the processing of one relic by cleanup_expired_relics ends: without
\* an exception, with one raised by the storage service (nothing was
\* deleted), or with one raised by db.commit() (the object was deleted)
RelicOutcomes == {"ok", "storage_raises", "commit_raises"}

\* the first query of cleanup_expired_relics
expired_relics(rows, t) ==
    {r \in rows : /\ r.expires_at # NoTime
                  /\ r.expires_at.at <= t
                  /\ r.deleted_at = NoTime}

\* the second query of cleanup_expired_relics
old_deleted(rows, t) ==
    {r \in rows : /\ r.deleted_at # NoTime
                  /\ r.deleted_at.at <= t - timedelta_days(SoftDeletedDays)}

\* a run that gives up at the first exception
cleanup_expired_relics_abort(rows, objects, t, outcome1, outcome2) ==
    LET expired == expired_relics(rows, t)
        errors1 == {r \in expired : outcome1[r.id] # "ok"}
        marked == IF errors1 # {} THEN {} ELSE expired
        rows1 == (rows \ marked) \cup {[r EXCEPT !.deleted_at = At(t)] : r \in marked}
        objects1 == {o \in objects : \A r \in marked : o.key # r.s3_key}
        old == IF errors1 # {} THEN {} ELSE old_deleted(rows1, t)
        errors2 == {r \in old : outcome2[r.id] # "ok"}
        permanently == IF errors2 # {} THEN {} ELSE old
    IN  [relics |-> rows1 \ permanently,
         blobs |-> {o \in objects1 : \A r \in permanently : o.key # r.s3_key},
         printed |-> [marked |-> {r.id : r \in marked},
                      errors |-> {r.id : r \in errors1},
                      permanently |-> {r.id : r \in permanently},
                      permanent_errors |-> {r.id : r \in errors2}]]

\* cleanup_expired_relics at the hour t: the tables afterwards and the ids
\* in the lines it printed
cleanup_expired_relics(rows, objects, t, outcome1, outcome2) ==
    LET expired == expired_relics(rows, t)
        marked == {r \in expired : outcome1[r.id] = "ok"}
        gone1 == {r \in expired : outcome1[r.id] # "storage_raises"}
        rows1 == (rows \ marked) \cup {[r EXCEPT !.deleted_at = At(t)] : r \in marked}
        objects1 == {o \in objects : \A r \in gone1 : o.key # r.s3_key}
        old == old_deleted(rows1, t)
        permanently == {r \in old : outcome2[r.id] = "ok"}
        gone2 == {r \in old : outcome2[r.id] # "storage_raises"}
    IN  [relics |-> rows1 \ permanently,
         blobs |-> {o \in objects1 : \A r \in gone2 : o.key # r.s3_key},
         printed |-> [marked |-> {r.id : r \in marked},
                      errors |-> {r.id : r \in expired \ marked},
                      permanently |-> {r.id : r \in permanently},
                      permanent_errors |-> {r.id : r \in old \ permanently}]]

\* the interval job relic_cleanup
CleanupExpiredRelics ==
    /\ pc = "serving"
    /\ \E outcome1 \in [{r.id : r \in expired_relics(relics, now)} -> RelicOutcomes],
          outcome2 \in [{r.id : r \in old_deleted(relics, now)} -> RelicOutcomes] :
          LET r == cleanup_expired_relics(relics, blobs, now, outcome1, outcome2)
          IN  /\ relics' = r.relics
              /\ blobs' = r.blobs
              /\ summary' = [now |-> now, printed |-> r.printed]
    /\ UNCHANGED <<now, clients, comments, response, store, backups, to_keep,
                   to_delete, rerun, idx, deleted_count, deleted_bytes, attempted,
                   list_failed, classify_failed, pc, backupVars, codecVars,
                   peerVars>>

NextRelics == CreateRelic \/ GetRequest \/ CleanupExpiredRelics \/ RelicTick

SpecRelics == InitRelics /\ [][NextRelics]_vars

(***************************************************************************)
(* Properties of the classifier (SpecClassify).                            *)
(***************************************************************************)
Keys(l) == {l[j].key : j \in 1..Len(l)}
Classified == pc \in {"classified", "reclassified"}
\* the input snapshots of a calendar month, of a weekly bucket of the code
\* (calendar year, ISO week number), of an ISO week (ISO year, ISO week number)
InMonth(m) == {b \in SeqToSet(backups) : MonthOf(b) = m}
InBucket(w) == {b \in SeqToSet(backups) : WeekOf(b) = w}
IsoWeekOf(b) == <<IsoYear(b.timestamp), IsoWeek(b.timestamp)>>
InIsoWeek(w) == {b \in SeqToSet(backups) : IsoWeekOf(b) = w}
Tagged(S, tier) == {b \in S : b.retention_type = tier}
InWeeklyWindow(b) == age_days(now, b) <= BACKUP_RETENTION_WEEKS

\* C1: classify_backups puts every input snapshot in exactly one of to_keep
\* and to_delete: together the two lists hold every input snapshot once, and
\* no snapshot is in both.
ThmC1_Partition ==
    Classified =>
        /\ Keys(to_keep) \cup Keys(to_delete) = Keys(backups)
        /\ Keys(to_keep) \cap Keys(to_delete) = {}
        /\ Len(to_keep) + Len(to_delete) = Len(backups)

WitC1_Partition ==
    /\ pc = "classified"
    /\ Len(to_keep) >= 2
    /\ Len(to_delete) >= 1
    /\ \E j \in 1..Len(to_keep) : to_keep[j].retention_type = "daily"

CexC4_OneWeeklyPerIsoWeek ==
    Classified =>
        \A b \in SeqToSet(backups) :
            InWeeklyWindow(b) =>
                Cardinality(Tagged(InIsoWeek(IsoWeekOf(b)), "weekly")) = 1

\* C4 as amended: no weekly bucket (calendar year of the timestamp, ISO week
\* number) has more than one snapshot tagged 'weekly', and a bucket with a
\* snapshot inside the weekly window that is not its month's 'monthly' one
\* has exactly one; every 'weekly' snapshot is kept.
ThmC4_Weekly ==
    Classified =>
        \A b \in SeqToSet(backups) :
            LET weekly == Tagged(InBucket(WeekOf(b)), "weekly")
            IN  /\ Cardinality(weekly) <= 1
                /\ (InWeeklyWindow(b) /\ b.retention_type # "monthly")
                       => Cardinality(weekly) = 1
                /\ \A k \in weekly : k.key \in Keys(to_keep)

WitC4_Weekly ==
    /\ pc = "classified"
    /\ \E k, o \in SeqToSet(backups) :
          /\ WeekOf(k) = WeekOf(o)
          /\ k.retention_type = "weekly"
          /\ o.retention_type = "expired"
          /\ InWeeklyWindow(o)

\* C6: a second run of classify_backups on the same list with the same now
\* returns the same to_keep and to_delete lists with the same tier on every
\* snapshot, although the dicts now carry the tiers of the first run.
ThmC6_Idempotent ==
    pc = "reclassified" =>
        /\ rerun.to_keep = to_keep
        /\ rerun.to_delete = to_delete

WitC6_Idempotent ==
    /\ pc = "reclassified"
    /\ to_delete # <<>>
    /\ \E j \in 1..Len(backups) : backups[j].retention_type = "monthly"
    /\ \E j \in 1..Len(backups) : backups[j].retention_type = "weekly"

(***************************************************************************)
(* Properties of the cleanup pass (Spec).                                  *)
(***************************************************************************)
StoreKeys == {o.key : o \in store}
\* parse_backup_timestamp returns a datetime for the key
Decodable(k) == parse_backup_timestamp(k) # ValueError
AttemptedKeys == {attempted[j].key : j \in 1..Len(attempted)}
\* the pass listed the store and classified the listing
PassClassified == pc \in {"deleting", "done"} /\ backups # <<>> /\ ~classify_failed
\* the dict of the listing with key k
Listed(k) == CHOOSE b \in SeqToSet(backups) : b.key = k

\* C2: the pass calls the store's delete only on keys of snapshots that
\* classify_backups tagged 'expired' and returned in to_delete, and every
\* snapshot of to_keep is in the store during and after the pass.
ThmC2_OnlyExpiredDeleted ==
    PassClassified =>
        /\ \A k \in AttemptedKeys :
              /\ k \in Keys(backups)
              /\ Listed(k).retention_type = "expired"
              /\ k \notin Keys(to_keep)
        /\ Keys(to_keep) \subseteq StoreKeys

WitC2_OnlyExpiredDeleted ==
    /\ pc = "done"
    /\ Len(to_keep) >= 2
    /\ \E j \in 1..Len(attempted) :
          attempted[j].outcome = "ok" /\ attempted[j].key \notin StoreKeys

\* C5: every listed snapshot whose age_days is at most BACKUP_RETENTION_DAYS
\* is in to_keep, whatever its tier, and the pass calls delete on no such
\* snapshot.
ThmC5_DailyWindowKept ==
    PassClassified =>
        \A b \in SeqToSet(backups) :
            age_days(now, b) <= BACKUP_RETENTION_DAYS =>
                /\ b.key \in Keys(to_keep)
                /\ b.retention_type \in {"monthly", "weekly", "daily"}
                /\ b.key \notin AttemptedKeys

WitC5_DailyWindowKept ==
    /\ pc = "done"
    /\ \E j \in 1..Len(attempted) : attempted[j].outcome = "ok"
    /\ \E b \in SeqToSet(backups) :
          /\ age_days(now, b) = BACKUP_RETENTION_DAYS
          /\ b.retention_type = "weekly"
          /\ b.key \in StoreKeys

\* C7: no step of a pass, an upload or the passing of time takes the last
\* snapshot of a calendar month out of the store.
StoreMonths(st) ==
    {MonthOf(Backup(o.key, o.size)) : o \in {x \in st : Decodable(x.key)}}
ThmC7_MonthNeverLost ==
    [][store' # store => StoreMonths(store) \subseteq StoreMonths(store')]_vars

WitC7_MonthNeverLost ==
    /\ pc = "done"
    /\ Len(attempted) >= 2
    /\ \A j \in 1..Len(attempted) : attempted[j].outcome = "ok"
    /\ \E b \in SeqToSet(to_keep) :
          /\ age_days(now, b) > BACKUP_RETENTION_WEEKS
          /\ \A j \in 1..Len(attempted) : MonthOf(Listed(attempted[j].key)) = MonthOf(b)

\* C8: the deletion loop calls delete once for each snapshot of to_delete, in
\* list order, whether or not earlier calls raised: while the loop runs the
\* calls made are those of the snapshots before idx, and at the end of the
\* pass those of the whole list.
ThmC8_EachDeleteOnce ==
    PassClassified =>
        /\ Len(attempted) = (IF pc = "done" THEN Len(to_delete) ELSE idx - 1)
        /\ \A j \in 1..Len(attempted) : attempted[j].key = to_delete[j].key

WitC8_EachDeleteOnce ==
    /\ pc = "done"
    /\ Len(to_delete) = 2
    /\ attempted[1].outcome = "error"
    /\ attempted[2].outcome = "ok"

\* C9: the summary of a pass reports as deleted the number of delete calls
\* that returned, as bytes freed the sum of the listed sizes of exactly those
\* snapshots, and as retained the length of to_keep.
RECURSIVE SucceededBytes(_)
SucceededBytes(n) ==
    IF n = 0 THEN 0
    ELSE SucceededBytes(n - 1)
            + (IF attempted[n].outcome = "ok" THEN Listed(attempted[n].key).size ELSE 0)
Succeeded == {j \in 1..Len(attempted) : attempted[j].outcome = "ok"}

ThmC9_Summary ==
    (pc = "done" /\ to_delete # <<>>) =>
        /\ summary.deleted = Cardinality(Succeeded)
        /\ summary.bytes = SucceededBytes(Len(attempted))
        /\ summary.retained = Len(to_keep)

WitC9_Summary ==
    /\ pc = "done"
    /\ Len(to_delete) = 2
    /\ to_delete[1].size # to_delete[2].size
    /\ Cardinality(Succeeded) = 1
    /\ summary.bytes = to_delete[2].size

\* C10: a pass whose listing raised, before the first object or after some,
\* has an empty list of backups, classifies nothing and calls no delete.
ThmC10_ListFailure ==
    list_failed =>
        /\ pc = "done"
        /\ backups = <<>>
        /\ to_keep = <<>>
        /\ to_delete = <<>>
        /\ attempted = <<>>
        /\ summary = NoSummary

WitC10_ListFailure ==
    /\ list_failed
    /\ \E l \in Listings(store) :
          classify_backups(list_all_backups(l, NoFailure(l)), now).to_delete # <<>>

\* C11: an object under db/ whose key does not decode is skipped by the
\* listing without ending it: when a pass lists the store (and the listing
\* itself does not raise), the dicts it returns and classifies are exactly
\* those of the decodable objects, whatever the position of the undecodable
\* ones in the listing; and no step of a pass removes an undecodable object
\* from the store.
ThmC11_UndecodableSkipped ==
    [][ /\ (pc = "idle" /\ pc' # "idle" /\ ~list_failed' /\ ~classify_failed') =>
              /\ Keys(backups') = {k \in StoreKeys : Decodable(k)}
              /\ \A j \in 1..Len(backups') : backups'[j].retention_type # "none"
              /\ Keys(to_keep') \cup Keys(to_delete') = Keys(backups')
        /\ \A o \in store : ~Decodable(o.key) => o \in store'
        /\ \A j \in 1..Len(attempted') : Decodable(attempted'[j].key) ]_vars

WitC11_UndecodableSkipped ==
    /\ pc = "done"
    /\ ~list_failed
    /\ \E o \in store : ~Decodable(o.key)
    /\ Len(backups) >= 2
    /\ \E j \in 1..Len(attempted) : attempted[j].outcome = "ok"


\* C18: with the default windows (7 and 30 days), during and after a pass
\* every ISO week that had a listed snapshot of age_days <= 30 still has a
\* snapshot in the store that the pass keeps, under whichever tier.
ThmC18_WeekSurvives ==
    PassClassified =>
        \A b \in SeqToSet(backups) :
            age_days(now, b) <= 30 =>
                \E k \in SeqToSet(to_keep) :
                    /\ IsoWeekOf(k) = IsoWeekOf(b)
                    /\ k.key \in StoreKeys

WitC18_WeekSurvives ==
    /\ pc = "done"
    /\ \E j \in 1..Len(attempted) :
          /\ attempted[j].outcome = "ok"
          /\ age_days(now, Listed(attempted[j].key)) \in 8..30
          /\ \E k \in SeqToSet(to_keep) :
                /\ IsoWeekOf(k) = IsoWeekOf(Listed(attempted[j].key))
                /\ k.retention_type = "weekly"

(***************************************************************************)
(* Properties of perform_backup and of the two tasks (SpecTasks).          *)
(***************************************************************************)
\* C12: perform_backup makes at most 3 attempts; the attempt that succeeds
\* uploads once and returns True at once, with no further attempt; before
\* attempt 2 it has slept 2 seconds, before attempt 3 2 and then 4 seconds;
\* after the third failed attempt it returns False without a further sleep.
ThmC12_AttemptsAndBackoff ==
    /\ [](bpc # "idle" => attempt \in 1..3)
    /\ [](bpc = "attempting" =>
            waits = (CASE attempt = 1 -> <<>>
                       [] attempt = 2 -> <<2>>
                       [] OTHER       -> <<2, 4>>))
    /\ [](bpc = "sleeping" =>
            /\ attempt \in 1..2
            /\ waits = (IF attempt = 1 THEN <<2>> ELSE <<2, 4>>))
    /\ []((bpc = "returned" /\ returned = "False") =>
            attempt = 3 /\ waits = <<2, 4>>)
    /\ [][(returned # "True" /\ returned' = "True") =>
            /\ bpc = "attempting" /\ bpc' = "returned"
            /\ attempt' = attempt /\ waits' = waits
            /\ generate_backup_filename(btype, now) \in {o.key : o \in store'}]_vars
    /\ [][bpc = "returned" =>
            /\ bpc' \in {"returned", "idle"}
            /\ store' \in {store} \cup
                  {storage_delete(store, k, "ok") : k \in StoreKeys}
            /\ uploaded' = uploaded]_vars

WitC12_AttemptsAndBackoff ==
    /\ bpc = "returned"
    /\ returned = "True"
    /\ attempt = 3
    /\ waits = <<2, 4>>
    /\ btype = "manual"

\* C13: no failure escapes either task.  cleanup_old_backups ends by
\* returning, whether the listing raised, classify_backups raised or a delete
\* raised; perform_backup ends by returning True or False, whichever step of
\* whichever attempt raised.
ThmC13_NoFailureEscapes ==
    /\ pc # "raised"
    /\ bpc # "raised"
    /\ (list_failed \/ classify_failed) => pc = "done"
    /\ (\E j \in 1..Len(attempted) : attempted[j].outcome = "error") =>
          pc \in {"deleting", "done"}
    /\ bpc = "returned" => returned \in {"True", "False"}

WitC13_NoFailureEscapes ==
    /\ pc = "done"
    /\ \E j \in 1..Len(attempted) : attempted[j].outcome = "error"
    /\ bpc = "returned"
    /\ returned = "False"

\* the objects of the store that are the marker backup of kind m of the day of t
MarkerObjects(m, t) ==
    {o \in store : /\ o.key.kind = m
                   /\ Decodable(o.key)
                   /\ Ordinal(parse_backup_timestamp(o.key)) = Ordinal(t)}

\* C16: for startup and for shutdown, the calls of generate_backup_filename
\* made on one UTC day return one key, whatever the time of day, and however
\* many backups of that kind succeeded on a day the store holds at most one
\* object of that kind for that day.
ThmC16_MarkerKeyStable ==
    /\ \A u, v \in uploaded :
          (u.backup_type = v.backup_type /\ Ordinal(u.at) = Ordinal(v.at)) =>
             generate_backup_filename(u.backup_type, u.at)
               = generate_backup_filename(v.backup_type, v.at)
    /\ \A m \in MarkerKinds, t \in TaskNows : Cardinality(MarkerObjects(m, t)) <= 1

WitC16_MarkerKeyStable ==
    /\ \E u, v \in uploaded :
          /\ u.backup_type = "startup" /\ v.backup_type = "startup"
          /\ Ordinal(u.at) = Ordinal(v.at)
          /\ u.at # v.at
    /\ Cardinality(MarkerObjects("startup", now)) = 1

(***************************************************************************)
(* Properties of the codec (SpecCodec).                                    *)
(***************************************************************************)
\* the key was generated at the instant now and then decoded
RoundTrip == pc = "decoded" /\ btype # "none"

\* C14: the codec round trip.  The timestamp decoded from the key generated
\* at instant t is t itself for scheduled and manual backups, and the date
\* of t at 12:00:00 for startup and shutdown backups, whatever the time of
\* day of t.
ThmC14_RoundTrip ==
    RoundTrip =>
        decoded = IF btype \in {"startup", "shutdown"}
                  THEN [year |-> now.year, month |-> now.month, day |-> now.day,
                        hour |-> 12, minute |-> 0, second |-> 0]
                  ELSE now

WitC14_RoundTrip ==
    /\ RoundTrip
    /\ btype = "startup"
    /\ now.hour = 23
    /\ decoded.hour = 12
    /\ decoded.day = now.day

\* the key is of one of the two supported shapes and nothing else: no
\* character between db/ and backup-, none after .sql.gz
SupportedShape(k) ==
    /\ k.lead = "" /\ k.trail = ""
    /\ k.kind \in {"full", "startup", "shutdown"}
    /\ Len(k.year) = 4 /\ Len(k.month) = 2 /\ Len(k.day) = 2
    /\ k.kind = "full" => Len(k.hour) = 2 /\ Len(k.minute) = 2 /\ Len(k.second) = 2

\* the key holds a segment of one of the two shapes, anywhere
HoldsSegment(k) ==
    /\ k.kind \in {"full", "startup", "shutdown"}
    /\ Len(k.year) = 4 /\ Len(k.month) = 2 /\ Len(k.day) = 2
    /\ k.kind = "full" => Len(k.hour) = 2 /\ Len(k.minute) = 2 /\ Len(k.second) = 2

\* the number a group of digits spells
Spelt(g) == IF Len(g) = 4 THEN 1000 * g[1] + 100 * g[2] + 10 * g[3] + g[4]
            ELSE 10 * g[1] + g[2]

\* the digits of the segment are a date of the calendar (and a time of day)
SpellsDate(k) ==
    LET y == Spelt(k.year)  mo == Spelt(k.month)  d == Spelt(k.day)
    IN  /\ y >= 1 /\ mo \in 1..12 /\ d >= 1
        /\ DaysFromCivil(y, mo, d)
             < DaysFromCivil(IF mo = 12 THEN y + 1 ELSE y, IF mo = 12 THEN 1 ELSE mo + 1, 1)
        /\ k.kind = "full" =>
             Spelt(k.hour) < 24 /\ Spelt(k.minute) < 60 /\ Spelt(k.second) < 60

NewestOfMonth(b) ==
    \A c \in SeqToSet(backups) :
        MonthOf(c) = MonthOf(b) => ~Before(b.timestamp, c.timestamp)

\* C17 as stated: in Scenario A no snapshot is put in to_delete, on whatever
\* weekday and day of month now falls.
CexC17_ScenarioANoneExpired ==
    pc \in {"classified", "reclassified"} => to_delete = <<>>

\* C17 as amended: in Scenario A no snapshot of age 0 to 7 days is put in
\* to_delete; a snapshot of age 8 or 9 days is put in to_delete exactly when
\* it is not the newest snapshot of its calendar month and the list holds a
\* newer snapshot of the same weekly bucket (calendar year, ISO week number)
\* that is not the newest of its month either.
ThmC17_ScenarioA ==
    pc \in {"classified", "reclassified"} =>
        \A b \in SeqToSet(backups) :
            b.key \in Keys(to_delete) <=>
                /\ age_days(now, b) \in {8, 9}
                /\ ~NewestOfMonth(b)
                /\ \E c \in SeqToSet(backups) :
                      /\ Before(b.timestamp, c.timestamp)
                      /\ WeekOf(c) = WeekOf(b)
                      /\ ~NewestOfMonth(c)

WitC17_ScenarioA ==
    /\ pc = "classified"
    /\ Len(backups) = 10
    /\ {age_days(now, backups[j]) : j \in 1..10} = 0..9
    /\ Len(to_delete) = 2

(***************************************************************************)
(* Properties of the HTTP handlers (SpecUpdate, SpecComments).             *)
(***************************************************************************)
\* the X-Client-Key of the answered request is the id of a registered client
Registered(req) == req.header # None /\ \E c \in clients : c.id = req.header

\* C19: update_relic answers 401 to a request without the key of a
\* registered client and 403 to a registered client that neither owns the
\* relic nor is an admin, and leaves the stored relic as it was in both
\* cases; it answers 200 to the owner and to an admin, stores the relic with
\* the given fields replaced and returns it with can_edit true.
ThmC19_UpdateAuthorization ==
    [][response'.op = "update_relic" =>
        LET req == response'
            relic == get_relic(req.relic_id)
            updated == [relic EXCEPT
                          !.name = IF req.arg.name = None THEN @ ELSE req.arg.name,
                          !.access_level = IF req.arg.access_level = None
                                           THEN @ ELSE req.arg.access_level]
        IN  /\ ~Registered(req) => req.status = 401 /\ relics' = relics
            /\ (/\ Registered(req) /\ relic # NoRelic
                /\ req.header # relic.client_id
                /\ req.header \notin AdminClientIds)
                  => req.status = 403 /\ relics' = relics
            /\ (/\ Registered(req) /\ relic # NoRelic
                /\ (req.header = relic.client_id \/ req.header \in AdminClientIds))
                  => /\ req.status = 200
                     /\ req.body.can_edit = TRUE
                     /\ req.body.relic = updated
                     /\ relics' = (relics \ {relic}) \cup {updated}
      ]_vars

WitC19_UpdateAuthorization ==
    /\ response.op = "update_relic"
    /\ response.status = 200
    /\ response.header = "dddd"
    /\ response.arg.name = "New Name"
    /\ \E r \in relics : r.id = "r1" /\ r.name = "New Name" /\ r.client_id = "aaaa"

\* C20: with requests that carry no X-Client-Key header, create_comment on
\* an existing relic answers 200 with the given content and line number and
\* stores the comment, get_relic_comments lists the comments of the relic,
\* and delete_comment of a stored comment answers 200 and removes it, so
\* that the relic has no comment afterwards.
CexC20_AnonymousCommentLifecycle ==
    [][response'.header = None =>
        LET req == response'
        IN  /\ (req.op = "create_comment" /\ get_relic(req.relic_id) # NoRelic)
                  => /\ req.status = 200
                     /\ req.body.content = req.arg.content
                     /\ req.body.line_number = req.arg.line_number
                     /\ \E c \in comments' \ comments : c.id = req.body.id
            /\ (req.op = "get_relic_comments" /\ get_relic(req.relic_id) # NoRelic)
                  => /\ req.status = 200
                     /\ {req.body[i].id : i \in 1 .. Len(req.body)}
                           = {c.id : c \in {d \in comments : d.relic_id = req.relic_id}}
            /\ (req.op = "delete_comment" /\ get_comment(req.relic_id, req.arg) # NoComment)
                  => /\ req.status = 200
                     /\ {c \in comments' : c.relic_id = req.relic_id}
                           = {c \in comments : c.relic_id = req.relic_id /\ c.id # req.arg}
      ]_vars

(***************************************************************************)
(* Properties of relic content and expiry (SpecRelics).                    *)
(***************************************************************************)
\* C21: the first GET /{relic_id}/raw or GET /{relic_id} after create_relic
\* stored a relic with content c, while the relic has not expired, is
\* answered 200 with a body equal to c.
CexC21_RawAndRootReturnContent ==
    [][(/\ response.op = "create_relic" /\ response.status = 200
        /\ response'.op = "get" /\ response'.relic_id = response.relic_id
        /\ ~is_expired(get_relic(response.relic_id).expires_at, now'))
          => /\ response'.status = 200
             /\ response'.body = response.arg.content
      ]_vars

\* the ids of a set of rows
Ids(rows) == {r.id : r \in rows}

\* C22: in every step a row of table relic either stays as it is, or gets
\* its deleted_at set (soft delete), or disappears (hard delete).  It is
\* soft-deleted only when its expires_at has passed, with deleted_at the
\* run's now and its object deleted; it disappears only when it is
\* soft-deleted and the run's now is at least 30 days after its deleted_at.
\* In a run of cleanup_expired_relics every expired relic is either
\* soft-deleted or, when its processing raised, left as it was, and every
\* relic soft-deleted 30 days ago is either hard-deleted or left as it was:
\* an exception on one relic does not stop the others.
ThmC22_ExpiryLifecycle ==
    /\ [][\A r \in relics :
            LET after == {q \in relics' : q.id = r.id}
            IN  /\ after = {} =>
                      /\ r.deleted_at # NoTime
                      /\ now >= r.deleted_at.at + 24 * 30
                /\ \A q \in after :
                      \/ q = r
                      \/ /\ r.deleted_at = NoTime
                         /\ q = [r EXCEPT !.deleted_at = At(now)]
                         /\ r.expires_at # NoTime
                         /\ r.expires_at.at <= now
                         /\ \A o \in blobs' : o.key # r.s3_key
         ]_vars
    /\ [][summary' # summary =>
            LET p == summary'.printed
                expired == {r \in relics : /\ r.expires_at # NoTime
                                           /\ r.expires_at.at <= now
                                           /\ r.deleted_at = NoTime}
                old == {r \in relics : /\ r.deleted_at # NoTime
                                       /\ r.deleted_at.at + 24 * 30 <= now}
            IN  /\ summary'.now = now
                /\ p.marked \cup p.errors = Ids(expired)
                /\ p.marked \cap p.errors = {}
                /\ \A r \in expired :
                      /\ r.id \in p.marked =>
                            /\ [r EXCEPT !.deleted_at = At(now)] \in relics'
                            /\ \A o \in blobs' : o.key # r.s3_key
                      /\ r.id \in p.errors => r \in relics'
                /\ p.permanently \cup p.permanent_errors = Ids(old)
                /\ p.permanently \cap p.permanent_errors = {}
                /\ \A r \in old :
                      /\ r.id \in p.permanently =>
                            /\ r.id \notin Ids(relics')
                            /\ \A o \in blobs' : o.key # r.s3_key
                      /\ r.id \in p.permanent_errors => r \in relics'
         ]_vars

\* the run at hour 721 hard-deleted the relic that was soft-deleted at hour
\* 1 although the processing of the other relic raised
WitC22_ExpiryLifecycle ==
    /\ summary # NoSummary
    /\ summary.now = 721
    /\ summary.printed.permanently = {"r1"}
    /\ summary.printed.marked = {}
    /\ summary.printed.errors = {"r2"}
    /\ Ids(relics) = {"r2"}

(***************************************************************************)
(* Further properties of the classifier (SpecClassifyOnce, SpecClassify).  *)
(***************************************************************************)
\* the calendar days from the date of the snapshot's timestamp to the date of now
CalendarDays(b) == Ordinal(now) - Ordinal(b.timestamp)

\* the whole days (of 24 hours) that have passed from the snapshot's
\* timestamp to now: the calendar days, less one when the time of day of now
\* is earlier than that of the timestamp
ElapsedDays(b) ==
    IF SecondOfDay(now) >= SecondOfDay(b.timestamp)
    THEN CalendarDays(b)
    ELSE CalendarDays(b) - 1

\* the snapshots the loop visits before b: the later ones, and those of the
\* same timestamp that stand before it in the input
VisitedBefore(b) ==
    {o \in SeqToSet(backups) :
        \/ Before(b.timestamp, o.timestamp)
        \/ /\ o.timestamp = b.timestamp
           /\ \E i, j \in 1..Len(backups) :
                 i < j /\ backups[i].key = o.key /\ backups[j].key = b.key}

\* C23 as stated: the age compared with the two limits is the difference of
\* the calendar dates of now and of the timestamp: a snapshot tagged 'daily'
\* is at most 7 calendar days old, one tagged 'weekly' at most 30, and one
\* tagged 'expired' more than 7.
CexC23_AgeIsDateDifference ==
    Classified =>
        \A b \in SeqToSet(backups) :
            /\ b.retention_type = "daily" => CalendarDays(b) <= 7
            /\ b.retention_type = "weekly" => CalendarDays(b) <= 30
            /\ b.retention_type = "expired" => CalendarDays(b) > 7

\* C23 as amended: the age compared with the two limits is the number of
\* whole 24-hour days from the timestamp to now.  A snapshot that is not the
\* first visited of its month is 'weekly' exactly when that age is at most
\* 30 and no snapshot visited before it was tagged 'weekly' in its bucket;
\* otherwise it is 'daily' when the age is at most 7 and 'expired' when not.
ThmC23_AgeIsElapsedDays ==
    Classified =>
        \A b \in SeqToSet(backups) :
            b.retention_type # "monthly" =>
                LET age == ElapsedDays(b)
                    weekly == /\ age <= 30
                              /\ \A o \in VisitedBefore(b) :
                                    ~(o.retention_type = "weekly" /\ WeekOf(o) = WeekOf(b))
                IN  /\ b.retention_type = "weekly" <=> weekly
                    /\ b.retention_type = "daily" <=> (age <= 7 /\ ~weekly)
                    /\ b.retention_type = "expired" <=> (age > 7 /\ ~weekly)

\* a snapshot 8 calendar days but only 7 whole days old was tagged 'daily'
WitC23_AgeIsElapsedDays ==
    /\ pc = "classified"
    /\ \E b \in SeqToSet(backups) :
          /\ b.retention_type = "daily"
          /\ CalendarDays(b) = 8
          /\ ElapsedDays(b) = 7

\* C24: the weekly bucket of a snapshot is its ISO week: two input
\* snapshots have the same bucket exactly when they lie in the same ISO week
\* (ISO year, ISO week number), and no two snapshots of one ISO week are both
\* tagged 'weekly'.
CexC24_BucketIsIsoWeek ==
    Classified =>
        \A a, b \in SeqToSet(backups) :
            /\ WeekOf(a) = WeekOf(b) <=> IsoWeekOf(a) = IsoWeekOf(b)
            /\ (/\ a.key # b.key
                /\ IsoWeekOf(a) = IsoWeekOf(b)
                /\ a.retention_type = "weekly")
                  => b.retention_type # "weekly"

\* b is in the list l
In(b, l) == \E j \in 1..Len(l) : l[j].key = b.key

\* b is the first snapshot of its calendar month that the loop visits: no
\* snapshot of the month is later, and of those with the same timestamp none
\* stands before it in the input
FirstVisitedOfMonth(b) == \A o \in VisitedBefore(b) : MonthOf(o) # MonthOf(b)

\* C25 as stated: a snapshot is in to_delete, tagged 'expired', exactly when
\* no snapshot of its calendar month is as new as it is or newer, it is not
\* tagged 'weekly' and it is more than 7 days old; a 'weekly' snapshot is at
\* most 30 days old and a 'daily' one at most 7.
CexC25_ExpiredIffOutsideAllTiers ==
    Classified =>
        \A b \in SeqToSet(backups) :
            /\ (In(b, to_delete) /\ b.retention_type = "expired")
                  <=> (/\ ~NewestOfMonth(b)
                       /\ b.retention_type # "weekly"
                       /\ ElapsedDays(b) > 7)
            /\ b.retention_type = "weekly" => ElapsedDays(b) <= 30
            /\ b.retention_type = "daily" => ElapsedDays(b) <= 7

\* C25 as amended: a snapshot is in to_delete, tagged 'expired', exactly when
\* it is not the first visited snapshot of its calendar month (the newest
\* one; of several with that timestamp, the first of the input), it is not
\* tagged 'weekly' and it is more than 7 days old; a 'weekly' snapshot is at
\* most 30 days old and a 'daily' one at most 7.
ThmC25_ExpiredIffOutsideAllTiers ==
    Classified =>
        \A b \in SeqToSet(backups) :
            /\ In(b, to_delete) <=> b.retention_type = "expired"
            /\ b.retention_type = "expired"
                  <=> (/\ ~FirstVisitedOfMonth(b)
                       /\ b.retention_type # "weekly"
                       /\ ElapsedDays(b) > 7)
            /\ b.retention_type = "weekly" => ElapsedDays(b) <= 30
            /\ b.retention_type = "daily" => ElapsedDays(b) <= 7

\* of the two markers of 2024-12-31, which decode to the same timestamp and
\* are the newest of their month, the second of the input is deleted
WitC25_ExpiredIffOutsideAllTiers ==
    /\ pc = "classified"
    /\ \E k, b \in SeqToSet(backups) :
          /\ k.timestamp = b.timestamp
          /\ k.retention_type = "monthly"
          /\ b.retention_type = "expired"
          /\ In(b, to_delete)
          /\ NewestOfMonth(b)
          /\ ElapsedDays(b) > 30

\* C26: a call of classify_backups leaves the input list and every dict of
\* it as they were: no input dict carries a tier after the call.
CexC26_NoSideEffects ==
    [][(pc = "input" /\ pc' = "classified") =>
          /\ backups' = backups
          /\ \A j \in 1..Len(backups') : backups'[j].retention_type = "none"
      ]_vars

\* the rearrangements of the positions 1..n
Rearrangements(n) ==
    {p \in [1..n -> 1..n] : \A i, j \in 1..n : i # j => p[i] # p[j]}

Rearranged(l, p) == [j \in 1..Len(l) |-> l[p[j]]]

\* C27: classify_backups gives every rearrangement of the input list, with
\* the same now, the same set of kept keys, the same set of deleted keys and
\* the same tier for every snapshot.
CexC27_OrderIndependent ==
    Classified =>
        \A p \in Rearrangements(Len(backups)) :
            LET r == classify_backups(Rearranged(backups, p), now)
            IN  /\ Keys(r.to_keep) = Keys(to_keep)
                /\ Keys(r.to_delete) = Keys(to_delete)
                /\ \A b \in SeqToSet(r.to_keep) \cup SeqToSet(r.to_delete) :
                      b.retention_type = Listed(b.key).retention_type


(***************************************************************************)
(* Properties of a cancelled cleanup pass (SpecCancel).                    *)
(***************************************************************************)
\* the pass was cancelled at its last attempted delete
Cancelled == attempted # <<>> /\ attempted[Len(attempted)].outcome = "cancelled"
\* a delete was attempted after one that was cancelled
DeleteAfterCancel ==
    \E j \in 1..Len(attempted) : attempted[j].outcome = "cancelled" /\ j < Len(attempted)
\* the keys of the backups of a list
KeysOf(l) == {l[j].key : j \in 1..Len(l)}
\* the listed snapshots that the store still holds
ListedInStore == KeysOf(backups) \cap StoreKeys
\* the deletes issued so far are those of the first Len(attempted) of to_delete
AttemptedIsPrefix ==
    /\ Len(attempted) <= Len(to_delete)
    /\ \A j \in 1..Len(attempted) : attempted[j].key = to_delete[j].key

\* C28 as stated: once the deletion loop is cancelled no further delete is
\* issued, and of the listed snapshots the store holds exactly those outside
\* some prefix of to_delete, all of to_keep among them.
CexC28_CancelLeavesPrefix ==
    /\ ~DeleteAfterCancel
    /\ Cancelled =>
          /\ \E n \in 0..Len(to_delete) :
                ListedInStore = KeysOf(backups) \ KeysOf(SubSeq(to_delete, 1, n))
          /\ KeysOf(to_keep) \subseteq StoreKeys

\* C28, amended: once the deletion loop is cancelled no further delete is
\* issued; the deletes issued are those of a prefix of to_delete; of the listed
\* snapshots the store lacks exactly the ones of that prefix whose delete
\* returned (and perhaps the one whose delete was cancelled), so a snapshot
\* whose delete failed is still there; all of to_keep is still there.
ThmC28_CancelLeavesDeletedPrefix ==
    /\ ~DeleteAfterCancel
    /\ Cancelled =>
          /\ AttemptedIsPrefix
          /\ \A j \in 1..Len(attempted) :
                /\ attempted[j].outcome = "ok" => attempted[j].key \notin StoreKeys
                /\ attempted[j].outcome = "error" => attempted[j].key \in StoreKeys
          /\ KeysOf(backups) \ StoreKeys \subseteq AttemptedKeys
          /\ KeysOf(to_keep) \subseteq StoreKeys

\* a pass cancelled at its second delete, which reached the store, after a
\* first delete that failed
WitC28_CancelLeavesDeletedPrefix ==
    /\ pc = "cancelled"
    /\ Len(attempted) = 2
    /\ attempted[1].outcome = "error"
    /\ attempted[1].key \in StoreKeys
    /\ attempted[2].key \notin StoreKeys
    /\ KeysOf(to_keep) # {}


(***************************************************************************)
(* Stability of retention (SpecStable).                                    *)
(***************************************************************************)
\* every snapshot of to_keep is kept again, with the same tier
KeptAgain ==
    \A j \in 1..Len(to_keep) :
        \E n \in 1..Len(rerun.to_keep) :
            /\ rerun.to_keep[n].key = to_keep[j].key
            /\ rerun.to_keep[n].retention_type = to_keep[j].retention_type

\* C29: classifying again, with the same now, the to_keep list of a
\* classification, or its input less any part of its to_delete list, keeps
\* every snapshot the first classification kept, in the same tier, and deletes
\* nothing beyond the first to_delete list.
ThmC29_RetentionStable ==
    pc \in {"second_pass", "kept_again"} =>
        /\ KeptAgain
        /\ KeysOf(rerun.to_delete) \subseteq KeysOf(to_delete)
        /\ pc = "kept_again" => rerun.to_delete = <<>>

\* a second pass after a first one that deleted one snapshot of two, the other
\* delete having failed: the snapshot left over has the timestamp of the
\* monthly one that was kept, and is expired again
WitC29_RetentionStable ==
    /\ pc = "second_pass"
    /\ Len(attempted) = 2
    /\ \E j \in 1..2 : attempted[j].outcome = "error"
    /\ \E j \in 1..2 : attempted[j].outcome = "ok"
    /\ Len(rerun.to_delete) = 1
    /\ \E j \in 1..Len(to_keep) :
          /\ to_keep[j].retention_type = "monthly"
          /\ to_keep[j].timestamp = rerun.to_delete[1].timestamp


(***************************************************************************)
(* Properties of overlapping passes (SpecOverlap).                         *)
(***************************************************************************)
\* the objects a step takes out of the store
Removed == {o \in store : o.key \notin {p.key : p \in store'}}
\* the step is a delete of the pass
PassDeletes == Len(attempted') = Len(attempted) + 1
\* the objects the pass listed and classified as expired
ExpiredListed ==
    {Object(backups[j].key, backups[j].size) :
        j \in {n \in 1..Len(backups) : backups[n].retention_type = "expired"}}
\* the timestamp of an object of the store
TimestampOf(o) == parse_backup_timestamp(o.key)

====
